---- MODULE Spec2Model ----
(***************************************************************************)
(* Eventzen inventory core: the Redis cart/hold service                    *)
(* (server/services/cartHoldService.js), the shared Redis connection       *)
(* (server/config/redis.js) and the booking and ticket-edit transactions   *)
(* against MongoDB (server/routes/events.js, the ticket routes).           *)
(*                                                                         *)
(* Every await of the code is one step: the store command it waits for,    *)
(* executed atomically by the store, together with the synchronous code    *)
(* that runs on its reply up to the next command.                          *)
(***************************************************************************)
EXTENDS Integers, Sequences, FiniteSets, TLC

VARIABLES
    tickets,    \* MongoDB Ticket collection: ticket id -> document
    events,     \* MongoDB Event collection: event id -> document
    bookings,   \* MongoDB Booking collection: a set of documents
    tlock,      \* MongoDB: ticket id -> the open transaction holding an uncommitted write of it
    tver,       \* MongoDB: ticket id -> number of committed writes of the document
    hold,       \* Redis ticket_hold:{ticketId}: ticket id -> [v, ttl]; absent key = not in DOMAIN
    carts,      \* Redis cart:{cartId}: cart id -> [doc, ttl]; absent key = not in DOMAIN
    watched,    \* per Redis connection: the keys it WATCHes
    dirty,      \* per Redis connection: a watched key was touched (CLIENT_DIRTY_CAS)
    rsv,        \* the reserveTickets calls: call -> locals and position
    fin,        \* the POST /:id/bookings calls: call -> locals and position
    edt,        \* the PATCH /tickets/:ticketId calls: call -> locals and position
    rel,        \* the releaseCartItem calls: call -> locals and position
    clr,        \* the clearCart calls: call -> locals and position
    gct,        \* the getCart calls of the cart routes: call -> locals and position
    web,        \* the requests of the cart routes: request -> locals, position and response
    crt         \* the POST /events/:eventId/tickets calls: call -> request and response

vars == <<tickets, events, bookings, tlock, tver, hold, carts, watched, dirty, rsv, fin, edt, rel, clr, gct, web, crt>>

durable == <<tickets, events, bookings, tlock, tver>>
redis == <<hold, carts, watched, dirty>>

----------------------------------------------------------------------------
(* Bounds and program constants *)

\* Largest quantity a request asks for.
MaxQuantity == 4

\* const HOLD_SECONDS = parseInt(process.env.CART_HOLD_SECONDS || "600", 10)
HOLD_SECONDS == 600

\* withRetry = async (fn, attempts = 3)
attempts == 3

\* One Node process has one Redis connection (the module-level redisClient).
Procs == {"p1", "p2"}
Users == {"u1", "u2"}
RsvCalls == {"a", "b", "c"}
FinCalls == {"f1", "f2"}
EdtCalls == {"g1"}
RelCalls == {"r1", "r2"}
ClrCalls == {"k1"}
GetCalls == {"q1"}
WebCalls == {"w1"}
CrtCalls == {"n1"}

\* The process that serves each request and the user who sends it: two
\* requests of one user on one process, one of another user on another.
ProcOf == [c \in RsvCalls |-> IF c = "c" THEN "p2" ELSE "p1"]
UserOf == [c \in RsvCalls |-> IF c = "c" THEN "u2" ELSE "u1"]

\* The absent value (null / undefined) of a document, a cart id or a cart.
Null == <<>>

----------------------------------------------------------------------------
(* The fixture: the documents the stores hold at the start *)

InitTickets ==
    [t \in {"t1", "t2", "t3", "t4"} |->
        CASE t = "t1" ->
               [eventId |-> "e1", name |-> "General", priceCents |-> 250, currency |-> "USD",
                qtyTotal |-> 5, qtySold |-> 1, perOrderLimit |-> 3,
                salesStart |-> <<1>>, salesEnd |-> <<2>>, status |-> "active"]
          [] t = "t2" ->
               [eventId |-> "e2", name |-> "VIP", priceCents |-> 900, currency |-> "USD",
                qtyTotal |-> 2, qtySold |-> 0, perOrderLimit |-> 2,
                salesStart |-> Null, salesEnd |-> Null, status |-> "active"]
          [] t = "t3" ->
               [eventId |-> "e1", name |-> "Early", priceCents |-> 100, currency |-> "USD",
                qtyTotal |-> 2, qtySold |-> 0, perOrderLimit |-> 2,
                salesStart |-> Null, salesEnd |-> Null, status |-> "archived"]
          [] OTHER ->
               [eventId |-> "e1", name |-> "Balcony", priceCents |-> 400, currency |-> "USD",
                qtyTotal |-> 3, qtySold |-> 0, perOrderLimit |-> 2,
                salesStart |-> Null, salesEnd |-> Null, status |-> "active"]]

InitEvents ==
    [e \in {"e1", "e2"} |->
        [status |-> IF e = "e1" THEN "published" ELSE "draft", createdBy |-> "u1"]]

----------------------------------------------------------------------------
(* Redis *)

\* A command outside MULTI that modifies `keys` flags every connection that
\* watches one of them (Redis touchWatchedKey), the sender's included.
Touch(d, w, keys) == [p \in DOMAIN d |-> d[p] \/ (w[p] \cap keys # {})]

\* GET ticket_hold:{id} followed by the parse of lines 123-124:
\* currentHoldRaw ? parseInt(currentHoldRaw, 10) : 0
ReadHold(t) == IF t \in DOMAIN hold THEN hold[t].v ELSE 0

\* INCRBY key n; EXPIRE key HOLD_SECONDS (an absent key counts from 0).
IncrHold(h, t, n) ==
    [k \in DOMAIN h \cup {t} |->
        IF k = t THEN [v |-> (IF t \in DOMAIN h THEN h[t].v ELSE 0) + n, ttl |-> HOLD_SECONDS]
        ELSE h[k]]

\* serializeCart: the cart without expiresInSeconds, as stored.
serializeCart(cart) == [f \in DOMAIN cart \ {"expiresInSeconds"} |-> cart[f]]

\* SET cart:{id} <json> EX HOLD_SECONDS
SetCart(cs, id, cart) ==
    [k \in DOMAIN cs \cup {id} |->
        IF k = id THEN [doc |-> serializeCart(cart), ttl |-> HOLD_SECONDS] ELSE cs[k]]

\* getCart as reserveTickets and releaseCartItem use it: the parsed document
\* (its expiresInSeconds is dropped by both callers), or null.
getCartFrom(cs, cartId) ==
    IF cartId # Null /\ cartId \in DOMAIN cs
    THEN [f \in DOMAIN cs[cartId].doc \cup {"expiresInSeconds"} |->
            IF f = "expiresInSeconds"
            THEN (IF cs[cartId].ttl > 0 THEN cs[cartId].ttl ELSE HOLD_SECONDS)
            ELSE cs[cartId].doc[f]]
    ELSE Null

getCart(cartId) == getCartFrom(carts, cartId)

----------------------------------------------------------------------------
(* reserveTickets *)

IdleRsv ==
    [pc |-> "idle", proc |-> "p1", userId |-> "u1", ticketId |-> "t1", quantity |-> 0,
     cartId |-> Null, ticket |-> Null, workingCart |-> Null, preQty |-> 0, i |-> 0,
     currentHold |-> 0, updatedCart |-> Null, effectiveCartId |-> Null, lastError |-> "none",
     result |-> "none", ret |-> Null]

\* The call has returned or thrown: what the caller sees is kept, and of a
\* call that succeeded the counter its last attempt read.
RsvDone(r, res, cart) ==
    [IdleRsv EXCEPT !.pc = "done", !.proc = r.proc, !.userId = r.userId,
                    !.ticketId = r.ticketId, !.quantity = r.quantity,
                    !.currentHold = IF res = "ok" THEN r.currentHold ELSE 0,
                    !.result = res, !.ret = cart]

\* validateQuantity: TRUE when it throws. The route has already parsed the
\* quantity to a positive integer, so only the limit can fail here.
validateQuantityThrowsWithoutLimit(quantity, perOrderLimit) == quantity <= 0

validateQuantityThrows(quantity, perOrderLimit) ==
    quantity <= 0 \/ (perOrderLimit # 0 /\ quantity > perOrderLimit)

\* withRetry's catch block for an error thrown by attempt r.i: stop when the
\* error says retryable === false or the attempts are used up, else loop.
withRetryTwoAttempts(r, err, retryableIsFalse) ==
    IF retryableIsFalse \/ r.i + 2 >= attempts
    THEN RsvDone(r, err, Null)
    ELSE [r EXCEPT !.pc = "watch", !.i = r.i + 1, !.lastError = err,
                   !.updatedCart = Null, !.effectiveCartId = Null]

withRetryMissingBreak(r, err, retryableIsFalse) ==
    IF r.i + 1 < attempts
    THEN [r EXCEPT !.pc = "watch", !.i = r.i + 1, !.lastError = err,
                   !.updatedCart = Null, !.effectiveCartId = Null]
    ELSE RsvDone(r, err, Null)

withRetry(r, err, retryableIsFalse) ==
    IF retryableIsFalse \/ r.i + 1 >= attempts
    THEN RsvDone(r, err, Null)
    ELSE [r EXCEPT !.pc = "watch", !.i = r.i + 1, !.lastError = err,
                   !.updatedCart = Null, !.effectiveCartId = Null]

\* generateCartId: crypto.randomUUID(), a fresh id at every call of it; the
\* pair (call, attempt) is an id no other evaluation produces.
generateCartIdAsSupplied(c, r) == IF r.cartId # Null THEN r.cartId ELSE <<c, r.i + 1>>

generateCartId(c, r) == <<c, r.i + 1>>

buildCartItem(ticket, quantity, ticketId) ==
    [ticketId |-> ticketId, eventId |-> ticket.eventId, name |-> ticket.name,
     priceCents |-> ticket.priceCents, currency |-> ticket.currency,
     perOrderLimit |-> ticket.perOrderLimit, quantity |-> quantity]

\* items[ticketId] = item
PutItem(items, ticketId, item) ==
    [k \in DOMAIN items \cup {ticketId} |-> IF k = ticketId THEN item ELSE items[k]]

\* The keys of `items` in the order the object lists them (insertion order,
\* which JSON keeps): a new key goes last, a rewritten one keeps its place.
PutKey(itemKeys, ticketId) ==
    IF \E n \in DOMAIN itemKeys : itemKeys[n] = ticketId THEN itemKeys
    ELSE Append(itemKeys, ticketId)

\* The check of line 106, TRUE when it throws.
NotOwnCartNoCheck(workingCart, userId) == FALSE

NotOwnCart(workingCart, userId) == workingCart # Null /\ workingCart.userId # userId

\* The check of line 112, TRUE when it throws.
OtherEventCartNoCheck(workingCart, ticket) == FALSE

OtherEventCart(workingCart, ticket) ==
    workingCart # Null /\ workingCart.eventId # ticket.eventId

\* POST /cart/add: the route checks ticketId and the quantity and calls
\* reserveTickets({userId, ticketId, quantity, cartId}), which starts with
\* await Ticket.findById(ticketId); validateQuantity(quantity, ticket.perOrderLimit).
\* Without a cartId no await follows and the first attempt starts at once.
ReserveCall(c, p, u, t, q, cid) ==
    LET r == [IdleRsv EXCEPT !.proc = p, !.userId = u, !.ticketId = t,
                             !.quantity = q, !.cartId = cid] IN
    /\ rsv[c].pc = "idle"
    /\ rsv' = [rsv EXCEPT ![c] =
            IF r.ticketId \notin DOMAIN tickets THEN RsvDone(r, "NotFound", Null)
            ELSE IF validateQuantityThrows(r.quantity, tickets[r.ticketId].perOrderLimit)
                 THEN RsvDone(r, "Validation", Null)
            ELSE [r EXCEPT !.ticket = tickets[r.ticketId],
                           !.pc = IF r.cartId # Null THEN "getCart" ELSE "watch"]]
    /\ UNCHANGED <<durable, redis, fin, edt, rel, clr, gct, web, crt>>

\* existingCart = await getCart(cartId); workingCart; the owner and event checks.
RsvGetCart(c) ==
    LET r == rsv[c]
        existingCart == getCart(r.cartId)
        workingCart == IF existingCart = Null THEN Null ELSE serializeCart(existingCart)
    IN
    /\ r.pc = "getCart"
    /\ rsv' = [rsv EXCEPT ![c] =
            IF NotOwnCart(workingCart, r.userId)
            THEN RsvDone(r, "Forbidden", Null)
            ELSE IF OtherEventCart(workingCart, r.ticket)
            THEN RsvDone(r, "EventMismatch", Null)
            ELSE [r EXCEPT !.workingCart = workingCart, !.pc = "watch",
                    !.preQty = IF workingCart # Null /\ r.ticketId \in DOMAIN workingCart.items
                               THEN workingCart.items[r.ticketId].quantity ELSE 0]]
    /\ UNCHANGED <<durable, redis, fin, edt, rel, clr, gct, web, crt>>

\* await redis.watch(holdKey), on the process's one connection.
RsvWatch(c) ==
    LET r == rsv[c] IN
    /\ r.pc = "watch"
    /\ watched' = [watched EXCEPT ![r.proc] = @ \cup {r.ticketId}]
    /\ rsv' = [rsv EXCEPT ![c].pc = "get"]
    /\ UNCHANGED <<durable, hold, carts, dirty, fin, edt, rel, clr, gct, web, crt>>

\* await redis.get(holdKey) and the code up to the next await: the
\* availability check (-> redis.unwatch()), the merge into the cart and its
\* validation (throws into withRetry), the queued MULTI (-> multi.exec()).
\* updatedCart is workingCart itself when there is one: the line is written
\* into the object every later attempt starts from.
RsvGet(c) ==
    LET r == rsv[c]
        currentHold == ReadHold(r.ticketId)
        available == r.ticket.qtyTotal - r.ticket.qtySold - currentHold
        effectiveCartId == IF r.workingCart # Null THEN r.workingCart.cartId
                           ELSE generateCartId(c, r)
        base == IF r.workingCart # Null THEN r.workingCart
                ELSE [cartId |-> effectiveCartId, userId |-> r.userId,
                      eventId |-> r.ticket.eventId, currency |-> r.ticket.currency,
                      items |-> <<>>, itemKeys |-> <<>>]
        nextQuantity == IF r.ticketId \in DOMAIN base.items
                        THEN base.items[r.ticketId].quantity + r.quantity
                        ELSE r.quantity
        updatedCart == [base EXCEPT
                          !.items = PutItem(@, r.ticketId,
                                            buildCartItem(r.ticket, nextQuantity, r.ticketId)),
                          !.itemKeys = PutKey(@, r.ticketId)]
    IN
    /\ r.pc = "get"
    /\ rsv' = [rsv EXCEPT ![c] =
            IF r.quantity > available
            THEN [r EXCEPT !.pc = "unwatch", !.lastError = "Insufficient"]
            ELSE IF validateQuantityThrows(nextQuantity, r.ticket.perOrderLimit)
            THEN withRetry(r, "Validation", FALSE)
            ELSE [r EXCEPT !.pc = "exec", !.updatedCart = updatedCart,
                           !.currentHold = currentHold,
                           !.effectiveCartId = effectiveCartId,
                           !.workingCart = IF r.workingCart # Null THEN updatedCart ELSE Null]]
    /\ UNCHANGED <<durable, redis, fin, edt, rel, clr, gct, web, crt>>

\* await multi.exec(): MULTI, INCRBY, EXPIRE, SET, EXEC in one pipeline. EXEC
\* of a connection flagged dirty answers nil and runs nothing; either way the
\* connection watches nothing afterwards. A run transaction touches the hold
\* key for every other connection that watches it.
ExecApplies(p) == ~dirty[p]

\* multi.incrby(holdKey, quantity); multi.expire(holdKey, HOLD_SECONDS): queued
\* in the MULTI, so run by EXEC or not at all.
MultiIncrbyNotQueued(p, t, n) == IncrHold(hold, t, n)

MultiIncrby(p, t, n) == IF ExecApplies(p) THEN IncrHold(hold, t, n) ELSE hold

\* multi.set(cartKey(effectiveCartId), serializeCart(updatedCart), "EX", HOLD_SECONDS)
MultiSet(p, id, cart) == IF ExecApplies(p) THEN SetCart(carts, id, cart) ELSE carts

RsvExec(c) ==
    LET r == rsv[c]
        p == r.proc
        unwatched == [watched EXCEPT ![p] = {}]
        cleared == [dirty EXCEPT ![p] = FALSE]
    IN
    /\ r.pc = "exec"
    /\ watched' = unwatched
    /\ hold' = MultiIncrby(p, r.ticketId, r.quantity)
    /\ carts' = MultiSet(p, r.effectiveCartId, r.updatedCart)
    /\ dirty' = IF ExecApplies(p) THEN Touch(cleared, unwatched, {r.ticketId}) ELSE cleared
    /\ rsv' = [rsv EXCEPT ![c] =
            IF ExecApplies(p)
            THEN RsvDone(r, "ok", [cartId |-> r.effectiveCartId,
                                   cart |-> [f \in DOMAIN r.updatedCart \cup {"expiresInSeconds"} |->
                                               IF f = "expiresInSeconds" THEN HOLD_SECONDS
                                               ELSE r.updatedCart[f]]])
            ELSE [r EXCEPT !.pc = "unwatch", !.lastError = "Conflict"]]
    /\ UNCHANGED <<durable, fin, edt, rel, clr, gct, web, crt>>

\* await redis.unwatch() and the throw after it: retryable false after the
\* availability check, retryable true after a nil EXEC.
RsvUnwatch(c) ==
    LET r == rsv[c] IN
    /\ r.pc = "unwatch"
    /\ watched' = [watched EXCEPT ![r.proc] = {}]
    /\ dirty' = [dirty EXCEPT ![r.proc] = FALSE]
    /\ rsv' = [rsv EXCEPT ![c] = withRetry(r, r.lastError, r.lastError = "Insufficient")]
    /\ UNCHANGED <<durable, hold, carts, fin, edt, rel, clr, gct, web, crt>>

----------------------------------------------------------------------------
(* releaseCartItem *)

\* A key without a time to live, as TTL reports it.
Persistent == 0 - 1

\* DECRBY key n: an absent key counts from 0 and is created without a time
\* to live; an existing key keeps the one it has.
DecrHold(h, t, n) ==
    [k \in DOMAIN h \cup {t} |->
        IF k = t THEN [v |-> (IF t \in DOMAIN h THEN h[t].v ELSE 0) - n,
                       ttl |-> IF t \in DOMAIN h THEN h[t].ttl ELSE Persistent]
        ELSE h[k]]

\* DEL key
DelKeyLeavesKey(f, k) == f

DelKey(f, k) == [j \in DOMAIN f \ {k} |-> f[j]]

\* EXPIRE key HOLD_SECONDS
ExpireKey(f, k) == [j \in DOMAIN f |-> IF j = k THEN [f[j] EXCEPT !.ttl = HOLD_SECONDS] ELSE f[j]]

\* Lines 207-211 (and 244-248): the counter after the command that follows
\* DECRBY, chosen by the value DECRBY answered.
HoldAfterDecrbyKeepsZero(h, t, newHold) ==
    IF newHold < 0 THEN DelKey(h, t) ELSE ExpireKey(h, t)

HoldAfterDecrby(h, t, newHold) ==
    IF newHold <= 0 THEN DelKey(h, t) ELSE ExpireKey(h, t)

IdleRel ==
    [pc |-> "idle", proc |-> "p1", cartId |-> Null, ticketId |-> "t1", quantity |-> Null,
     workingCart |-> Null, newQuantity |-> 0, decrementBy |-> 0, newHold |-> 0,
     result |-> "none", ret |-> Null]

\* The call has returned: what it returned.
RelDone(r, res, cart) == [IdleRel EXCEPT !.pc = "done", !.result = res, !.ret = cart]

\* Lines 199-202. `quantity` is Null when the caller leaves it out.
decrementByWholeRequest(quantity, existingItem) ==
    IF quantity # Null THEN quantity[1] ELSE existingItem.quantity

decrementBy(quantity, existingItem) ==
    IF quantity # Null
    THEN (IF quantity[1] < existingItem.quantity THEN quantity[1] ELSE existingItem.quantity)
    ELSE existingItem.quantity

\* Lines 197-198.
newQuantity(quantity, existingItem) ==
    IF quantity # Null THEN existingItem.quantity - quantity[1] ELSE 0

\* Lines 214-221: the line rewritten with the new quantity, or deleted.
WithLineNeverDeleted(cart, ticketId, n) == [cart EXCEPT !.items[ticketId].quantity = n]

WithLine(cart, ticketId, n) ==
    IF n > 0
    THEN [cart EXCEPT !.items[ticketId].quantity = n]
    ELSE [cart EXCEPT !.items = [k \in DOMAIN @ \ {ticketId} |-> @[k]],
                      !.itemKeys = SelectSeq(@, LAMBDA k : k # ticketId)]

\* The cart with expiresInSeconds: HOLD_SECONDS, as reserve and release return it.
Returned(cart) ==
    [f \in DOMAIN cart \cup {"expiresInSeconds"} |->
        IF f = "expiresInSeconds" THEN HOLD_SECONDS ELSE cart[f]]

\* releaseCartItem({cartId, ticketId, quantity}): currentCart = await
\* getCart(cartId) and the code up to the next await.
ReleaseCall(c, p, cid, t, q) ==
    LET r == [IdleRel EXCEPT !.proc = p, !.cartId = cid, !.ticketId = t, !.quantity = q]
        currentCart == getCart(cid)
        workingCart == serializeCart(currentCart)
        existingItem == workingCart.items[t]
        d == decrementBy(q, existingItem)
        n == newQuantity(q, existingItem)
    IN
    /\ rel[c].pc = "idle"
    /\ rel' = [rel EXCEPT ![c] =
            IF currentCart = Null THEN RelDone(r, "null", Null)
            ELSE IF t \notin DOMAIN workingCart.items THEN RelDone(r, "unchanged", currentCart)
            ELSE [r EXCEPT !.workingCart = workingCart, !.decrementBy = d, !.newQuantity = n,
                           !.pc = IF d > 0 THEN "decrby" ELSE "cart"]]
    /\ UNCHANGED <<durable, redis, rsv, fin, edt, clr, gct, web, crt>>

\* newHold = await redis.decrby(holdKey, decrementBy)
RelDecrby(c) ==
    LET r == rel[c] IN
    /\ r.pc = "decrby"
    /\ hold' = DecrHold(hold, r.ticketId, r.decrementBy)
    /\ dirty' = Touch(dirty, watched, {r.ticketId})
    /\ rel' = [rel EXCEPT ![c] = [r EXCEPT !.pc = "holdTtl", !.newHold = hold'[r.ticketId].v]]
    /\ UNCHANGED <<durable, carts, watched, rsv, fin, edt, clr, gct, web, crt>>

\* await redis.del(holdKey) or await redis.expire(holdKey, HOLD_SECONDS): a
\* command on a key that is not there changes nothing and touches no watch.
RelHoldTtl(c) ==
    LET r == rel[c] IN
    /\ r.pc = "holdTtl"
    /\ hold' = HoldAfterDecrby(hold, r.ticketId, r.newHold)
    /\ dirty' = IF r.ticketId \in DOMAIN hold THEN Touch(dirty, watched, {r.ticketId}) ELSE dirty
    /\ rel' = [rel EXCEPT ![c].pc = "cart"]
    /\ UNCHANGED <<durable, carts, watched, rsv, fin, edt, clr, gct, web, crt>>

\* Lines 214-232: the line is rewritten or deleted; await redis.set(cartKey,
\* ..., "EX", HOLD_SECONDS) when lines remain, else await redis.del(cartKey).
RelCart(c) ==
    LET r == rel[c]
        cart == WithLine(r.workingCart, r.ticketId, r.newQuantity)
        hasItems == DOMAIN cart.items # {}
    IN
    /\ r.pc = "cart"
    /\ carts' = IF hasItems THEN SetCart(carts, r.cartId, cart) ELSE DelKey(carts, r.cartId)
    /\ rel' = [rel EXCEPT ![c] =
            RelDone(r, "ok", IF hasItems THEN Returned(cart) ELSE Null)]
    /\ UNCHANGED <<durable, hold, watched, dirty, rsv, fin, edt, clr, gct, web, crt>>

----------------------------------------------------------------------------
(* clearCart *)

\* `before` is the store as the call found it: the code keeps no such copy,
\* the claims about the whole call compare against it.
IdleClr ==
    [pc |-> "idle", proc |-> "p1", cartId |-> Null, cart |-> Null, n |-> 0, remaining |-> 0,
     before |-> Null, result |-> "none"]

ClrDone(r, res) == [IdleClr EXCEPT !.pc = "done", !.result = res]

\* clearCart(cartId): cart = await getCart(cartId); the loop starts with the
\* first of Object.values(cart.items).
ClearCall(c, p, cid) ==
    LET r == [IdleClr EXCEPT !.proc = p, !.cartId = cid]
        cart == getCart(cid)
    IN
    /\ clr[c].pc = "idle"
    /\ clr' = [clr EXCEPT ![c] =
            IF cid = Null \/ cart = Null THEN ClrDone(r, "absent")
            ELSE [r EXCEPT !.cart = cart, !.n = 1, !.before = [hold |-> hold, carts |-> carts],
                           !.pc = IF Len(cart.itemKeys) >= 1 THEN "decrby" ELSE "delCart"]]
    /\ UNCHANGED <<durable, redis, rsv, fin, edt, rel, gct, web, crt>>

\* remaining = await redis.decrby(holdKey, item.quantity)
ClrDecrby(c) ==
    LET r == clr[c]
        item == r.cart.items[r.cart.itemKeys[r.n]]
    IN
    /\ r.pc = "decrby"
    /\ hold' = DecrHold(hold, item.ticketId, item.quantity)
    /\ dirty' = Touch(dirty, watched, {item.ticketId})
    /\ clr' = [clr EXCEPT ![c] = [r EXCEPT !.pc = "holdTtl", !.remaining = hold'[item.ticketId].v]]
    /\ UNCHANGED <<durable, carts, watched, rsv, fin, edt, rel, gct, web, crt>>

\* await redis.del(holdKey) or await redis.expire(holdKey, HOLD_SECONDS), and
\* on to the next item.
ClrHoldTtl(c) ==
    LET r == clr[c]
        t == r.cart.itemKeys[r.n]
    IN
    /\ r.pc = "holdTtl"
    /\ hold' = HoldAfterDecrby(hold, t, r.remaining)
    /\ dirty' = IF t \in DOMAIN hold THEN Touch(dirty, watched, {t}) ELSE dirty
    /\ clr' = [clr EXCEPT ![c] =
            [r EXCEPT !.n = r.n + 1,
                      !.pc = IF r.n < Len(r.cart.itemKeys) THEN "decrby" ELSE "delCart"]]
    /\ UNCHANGED <<durable, carts, watched, rsv, fin, edt, rel, gct, web, crt>>

\* await redis.del(cartKey(cartId))
ClrDelCart(c) ==
    LET r == clr[c] IN
    /\ r.pc = "delCart"
    /\ carts' = DelKey(carts, r.cartId)
    /\ clr' = [clr EXCEPT ![c] = ClrDone(r, "ok")]
    /\ UNCHANGED <<durable, hold, watched, dirty, rsv, fin, edt, rel, gct, web, crt>>

----------------------------------------------------------------------------
(* getCart, called by GET /cart *)

IdleGet == [pc |-> "idle", cartId |-> Null, cart |-> Null, ret |-> Null]

\* TTL key: the seconds the key has to live, -2 when there is no such key.
TtlOf(cs, k) == IF k \in DOMAIN cs THEN cs[k].ttl ELSE 0 - 2

\* expiresInSeconds: ttl > 0 ? ttl : HOLD_SECONDS
expiresInSecondsAsReported(ttl) == ttl

expiresInSeconds(ttl) == IF ttl > 0 THEN ttl ELSE HOLD_SECONDS

\* getCart(cartId): if (!cartId) return null; raw = await redis.get(cartKey);
\* cart = parseCart(raw); if (!cart) return null.
GetCartCall(c, cid) ==
    LET r == [IdleGet EXCEPT !.cartId = cid] IN
    /\ gct[c].pc = "idle"
    /\ gct' = [gct EXCEPT ![c] =
            IF cid = Null \/ cid \notin DOMAIN carts THEN [r EXCEPT !.pc = "done"]
            ELSE [r EXCEPT !.pc = "ttl", !.cart = carts[cid].doc]]
    /\ UNCHANGED <<durable, redis, rsv, fin, edt, rel, clr, web, crt>>

\* ttl = await redis.ttl(cartKey); return {...cart, expiresInSeconds}.
GetCartTtl(c) ==
    LET r == gct[c]
        ttl == TtlOf(carts, r.cartId)
    IN
    /\ r.pc = "ttl"
    /\ gct' = [gct EXCEPT ![c] =
            [r EXCEPT !.pc = "done",
                      !.ret = [f \in DOMAIN r.cart \cup {"expiresInSeconds"} |->
                                 IF f = "expiresInSeconds" THEN expiresInSeconds(ttl)
                                 ELSE r.cart[f]]]]
    /\ UNCHANGED <<durable, redis, rsv, fin, edt, rel, clr, web, crt>>

----------------------------------------------------------------------------
(* Time: the store drops a key when its time to live has run out *)

\* The seconds that pass in one step of the clock: half the hold duration.
Elapsed == HOLD_SECONDS \div 2

\* The keys of f after s seconds: a key with a time to live has s seconds
\* less of it and is gone when none is left.
Age(f, s) ==
    [k \in {j \in DOMAIN f : f[j].ttl = Persistent \/ f[j].ttl > s} |->
        IF f[k].ttl = Persistent THEN f[k] ELSE [f[k] EXCEPT !.ttl = @ - s]]

\* Time passes between the calls (a call takes milliseconds, a hold minutes).
Tick ==
    /\ \A c \in RsvCalls : rsv[c].pc \in {"idle", "done"}
    /\ \A c \in RelCalls : rel[c].pc \in {"idle", "done"}
    /\ \A c \in ClrCalls : clr[c].pc \in {"idle", "done"}
    /\ hold' = Age(hold, Elapsed)
    /\ carts' = Age(carts, Elapsed)
    /\ <<hold', carts'>> # <<hold, carts>>
    /\ UNCHANGED <<durable, watched, dirty, rsv, fin, edt, rel, clr, gct, web, crt>>

----------------------------------------------------------------------------
(* MongoDB transactions (session.withTransaction): a transaction reads from
   the snapshot of its first read; its writes stay private until the commit;
   a write of a document that another open transaction has written, or that
   was committed after the snapshot, fails with a write conflict, on which
   withTransaction aborts and runs the callback again. *)

WriteConflictOnOpenWriteOnly(c, t, ver) == tlock[t] \notin {"none", c}

WriteConflict(c, t, ver) == tlock[t] \notin {"none", c} \/ tver[t] # ver

\* $set of the modified paths of a saved document, at commit.
ApplySet(doc, fields) == [f \in DOMAIN doc |-> IF f \in DOMAIN fields THEN fields[f] ELSE doc[f]]

Unlock(lk, c) == [t \in DOMAIN lk |-> IF lk[t] = c THEN "none" ELSE lk[t]]

\* What the collection holds after a document was saved with { session } and
\* before the commit: the write is the transaction's own.
TicketsAfterSaveNoSession(tk, t, fields) == [tk EXCEPT ![t] = ApplySet(@, fields)]

TicketsAfterSave(tk, t, fields) == tk

----------------------------------------------------------------------------
(* POST /:id/bookings *)

IdleFin ==
    [pc |-> "idle", eventId |-> "e1", ticketId |-> Null, ticketType |-> Null, qty |-> 0,
     userId |-> "u1", sel |-> Null, ver |-> 0, qtySold |-> 0, priceCents |-> 0,
     result |-> "none", failedAt |-> "none"]

\* The response: the booking (its quantity and ticket) on success, else the error.
FinDone(r, res) ==
    IF res = "ok"
    THEN [IdleFin EXCEPT !.pc = "done", !.qty = r.qty, !.sel = r.sel, !.result = res]
    ELSE [IdleFin EXCEPT !.pc = "done", !.result = res]

\* Ticket.findOne(ticketQuery).sort({ priceCents: 1 }): the documents it can
\* return, Null when none matches. The id and the name both narrow the query.
FindOneTicket(eventId, ticketId, ticketType) ==
    LET match == {t \in DOMAIN tickets :
                    /\ tickets[t].eventId = eventId
                    /\ tickets[t].status = "active"
                    /\ ticketId # Null => <<t>> = ticketId
                    /\ ticketType # Null => <<tickets[t].name>> = ticketType}
    IN IF match = {} THEN {Null}
       ELSE {<<t>> : t \in {m \in match : \A o \in match : tickets[m].priceCents <= tickets[o].priceCents}}

\* The check of line 432, TRUE when it throws.
NotEnoughTicketsNoCheck(ticket, qty) == FALSE

NotEnoughTickets(ticket, qty) == ticket.qtySold + qty > ticket.qtyTotal

\* The transaction callback up to its first write: the error it throws, or
\* "none" when it goes on to ticket.qtySold += qty; ticket.save().
BookingError(r, now, sel) ==
    IF r.eventId \notin DOMAIN events THEN "NotFound"
    ELSE IF events[r.eventId].status # "published" THEN "InvalidState"
    ELSE IF sel = Null THEN "NoInventory"
    ELSE LET ticket == tickets[sel[1]] IN
         IF ticket.salesStart # Null /\ now < ticket.salesStart[1] THEN "SalesNotStarted"
         ELSE IF ticket.salesEnd # Null /\ now > ticket.salesEnd[1] THEN "SalesClosed"
         ELSE IF ticket.perOrderLimit # 0 /\ r.qty > ticket.perOrderLimit THEN "LimitExceeded"
         ELSE IF NotEnoughTickets(ticket, r.qty) THEN "Insufficient"
         ELSE "none"

FinCallback(r, now, sel) ==
    LET err == BookingError(r, now, sel) IN
    IF err # "none" THEN FinDone(r, err)
    ELSE [r EXCEPT !.pc = "saveTicket", !.sel = sel, !.ver = tver[sel[1]],
                   !.qtySold = tickets[sel[1]].qtySold + r.qty,
                   !.priceCents = tickets[sel[1]].priceCents]

\* The route has parsed the quantity (a positive integer) and verified the
\* token; session.withTransaction runs the callback for the first time.
BookingCall(c, e, tid, ttype, q, u, now, sel) ==
    /\ fin[c].pc = "idle"
    /\ sel \in FindOneTicket(e, tid, ttype)
    /\ fin' = [fin EXCEPT ![c] =
            FinCallback([IdleFin EXCEPT !.eventId = e, !.ticketId = tid, !.ticketType = ttype,
                                        !.qty = q, !.userId = u], now, sel)]
    /\ UNCHANGED <<durable, redis, rsv, edt, rel, clr, gct, web, crt>>

\* withTransaction runs the callback again after a write conflict.
BookingRetry(c, now, sel) ==
    LET r == fin[c] IN
    /\ r.pc = "retry"
    /\ sel \in FindOneTicket(r.eventId, r.ticketId, r.ticketType)
    /\ fin' = [fin EXCEPT ![c] = FinCallback(r, now, sel)]
    /\ UNCHANGED <<durable, redis, rsv, edt, rel, clr, gct, web, crt>>

\* await ticket.save({ session })
BookingSaveTicket(c) ==
    LET r == fin[c] t == r.sel[1] IN
    /\ r.pc = "saveTicket"
    /\ IF WriteConflict(c, t, r.ver)
       THEN /\ fin' = [fin EXCEPT ![c].pc = "retry"]
            /\ UNCHANGED <<tickets, tlock>>
       ELSE /\ fin' = [fin EXCEPT ![c].pc = "saveBooking"]
            /\ tlock' = [tlock EXCEPT ![t] = c]
            /\ tickets' = TicketsAfterSave(tickets, t, [qtySold |-> r.qtySold])
    /\ UNCHANGED <<events, bookings, tver, redis, rsv, edt, rel, clr, gct, web, crt>>

\* total_amount: (ticket.priceCents * qty) / 100, kept as the fraction.
NewBookingUnitPrice(c, r) ==
    [id |-> c, event_id |-> r.eventId, user_id |-> r.userId, quantity |-> r.qty,
     total_amount |-> [num |-> r.priceCents, den |-> 100],
     booking_status |-> "confirmed"]

NewBooking(c, r) ==
    [id |-> c, event_id |-> r.eventId, user_id |-> r.userId, quantity |-> r.qty,
     total_amount |-> [num |-> r.priceCents * r.qty, den |-> 100],
     booking_status |-> "confirmed"]

\* What the Booking collection holds after bookingRecord.save({ session }) and
\* before the commit: the insert is the transaction's own.
BookingsAfterSaveNoSession(bk, c, r) == bk \cup {NewBooking(c, r)}

BookingsAfterSave(bk, c, r) == bk

\* bookingRecord = new Booking({...}); await bookingRecord.save({ session })
BookingSaveRecord(c) ==
    /\ fin[c].pc = "saveBooking"
    /\ fin' = [fin EXCEPT ![c].pc = "commit"]
    /\ bookings' = BookingsAfterSave(bookings, c, fin[c])
    /\ UNCHANGED <<tickets, events, tlock, tver, redis, rsv, edt, rel, clr, gct, web, crt>>

\* The transaction (lines 403-445) sends no command to Redis: the counters
\* after a booking of qty units of ticket t are the counters before it.
HoldAfterBookingTakesHold(h, t, qty) == IF t \in DOMAIN h THEN DecrHold(h, t, qty) ELSE h

HoldAfterBooking(h, t, qty) == h

\* The callback returned: the transaction commits both writes.
BookingCommit(c) ==
    LET r == fin[c] t == r.sel[1] IN
    /\ r.pc = "commit"
    /\ tickets' = [tickets EXCEPT ![t] = ApplySet(@, [qtySold |-> r.qtySold])]
    /\ bookings' = bookings \cup {NewBooking(c, r)}
    /\ tver' = [tver EXCEPT ![t] = @ + 1]
    /\ tlock' = Unlock(tlock, c)
    /\ fin' = [fin EXCEPT ![c] = FinDone(r, "ok")]
    /\ hold' = HoldAfterBooking(hold, t, r.qty)
    /\ UNCHANGED <<events, carts, watched, dirty, rsv, edt, rel, clr, gct, web, crt>>

\* A failure inside the transaction after the inventory check (a save that
\* throws, a lost connection): withTransaction aborts, the route answers 500.
BookingFail(c) ==
    LET r == fin[c] IN
    /\ r.pc \in {"saveTicket", "saveBooking", "commit"}
    /\ tlock' = Unlock(tlock, c)
    /\ fin' = [fin EXCEPT ![c] = [FinDone(r, "Error") EXCEPT !.failedAt = r.pc]]
    /\ UNCHANGED <<tickets, events, bookings, tver, redis, rsv, edt, rel, clr, gct, web, crt>>

----------------------------------------------------------------------------
(* PATCH /tickets/:ticketId, for a body of qtyTotal, perOrderLimit, status *)

IdleEdt ==
    [pc |-> "idle", userId |-> "u1", ticketId |-> "t1", body |-> Null, ver |-> 0,
     fields |-> Null, result |-> "none"]

EdtDone(r, res) == [IdleEdt EXCEPT !.pc = "done", !.ticketId = r.ticketId, !.result = res]

\* assertOwnership, TRUE when it throws.
assertOwnershipThrows(event, userId) == event.createdBy # userId

\* The check of line 512, TRUE when it throws.
QtyTotalRejectedNoCheck(total, ticket) == FALSE

QtyTotalRejected(total, ticket) == total < ticket.qtySold

\* Lines 510-519: the ticket after `qtyTotal` of the body was applied.
WithQtyTotalResetsSold(ticket, body) ==
    IF body.qtyTotal = Null THEN ticket
    ELSE [ticket EXCEPT !.qtyTotal = body.qtyTotal[1], !.qtySold = 0]

WithQtyTotalKeepsLimit(ticket, body) ==
    IF body.qtyTotal = Null THEN ticket
    ELSE [ticket EXCEPT !.qtyTotal = body.qtyTotal[1]]

WithQtyTotal(ticket, body) ==
    IF body.qtyTotal = Null THEN ticket
    ELSE LET total == body.qtyTotal[1] IN
         [ticket EXCEPT !.qtyTotal = total,
                        !.perOrderLimit = IF @ > total /\ total # 0 THEN total ELSE @]

\* Lines 545-554.
WithPerOrderLimit(ticket, body) ==
    IF body.perOrderLimit = Null THEN ticket
    ELSE [ticket EXCEPT !.perOrderLimit = body.perOrderLimit[1]]

\* Lines 556-561.
WithStatus(ticket, body) ==
    IF body.status = Null THEN ticket ELSE [ticket EXCEPT !.status = body.status[1]]

\* The error the callback throws, or "none".
EditError(r) ==
    IF r.ticketId \notin DOMAIN tickets THEN "NotFound"
    ELSE LET ticket == tickets[r.ticketId] IN
         IF ticket.eventId \notin DOMAIN events THEN "NotFound"
         ELSE IF assertOwnershipThrows(events[ticket.eventId], r.userId) THEN "Forbidden"
         ELSE IF r.body.qtyTotal # Null /\ QtyTotalRejected(r.body.qtyTotal[1], ticket)
              THEN "BadRequest"
         ELSE LET t2 == WithQtyTotal(ticket, r.body) IN
              IF r.body.perOrderLimit # Null
                 /\ (r.body.perOrderLimit[1] <= 0
                     \/ (r.body.perOrderLimit[1] > t2.qtyTotal /\ t2.qtyTotal # 0))
              THEN "BadRequest"
              ELSE IF r.body.status # Null /\ r.body.status[1] \notin {"draft", "active", "archived"}
              THEN "BadRequest"
              ELSE "none"

\* The modified paths of the document: what ticket.save() sends as $set.
ModifiedPaths(old, new) ==
    [f \in {g \in DOMAIN old : old[g] # new[g]} |-> new[f]]

EdtCallback(r) ==
    LET err == EditError(r) IN
    IF err # "none" THEN EdtDone(r, err)
    ELSE LET ticket == tickets[r.ticketId]
             edited == WithStatus(WithPerOrderLimit(WithQtyTotal(ticket, r.body), r.body), r.body)
         IN [r EXCEPT !.pc = "save", !.ver = tver[r.ticketId],
                      !.fields = ModifiedPaths(ticket, edited)]

EditCall(c, u, t, body) ==
    /\ edt[c].pc = "idle"
    /\ edt' = [edt EXCEPT ![c] =
            EdtCallback([IdleEdt EXCEPT !.userId = u, !.ticketId = t, !.body = body])]
    /\ UNCHANGED <<durable, redis, rsv, fin, rel, clr, gct, web, crt>>

EditRetry(c) ==
    /\ edt[c].pc = "retry"
    /\ edt' = [edt EXCEPT ![c] = EdtCallback(edt[c])]
    /\ UNCHANGED <<durable, redis, rsv, fin, rel, clr, gct, web, crt>>

\* updatedTicket = await ticket.save({ session }): no command is sent when
\* no path was modified.
EditSave(c) ==
    LET r == edt[c] t == r.ticketId IN
    /\ r.pc = "save"
    /\ IF DOMAIN r.fields # {} /\ WriteConflict(c, t, r.ver)
       THEN /\ edt' = [edt EXCEPT ![c].pc = "retry"]
            /\ UNCHANGED <<tickets, tlock>>
       ELSE /\ edt' = [edt EXCEPT ![c].pc = "commit"]
            /\ tlock' = IF DOMAIN r.fields # {} THEN [tlock EXCEPT ![t] = c] ELSE tlock
            /\ tickets' = TicketsAfterSave(tickets, t, r.fields)
    /\ UNCHANGED <<events, bookings, tver, redis, rsv, fin, rel, clr, gct, web, crt>>

EditCommit(c) ==
    LET r == edt[c] t == r.ticketId IN
    /\ r.pc = "commit"
    /\ tickets' = [tickets EXCEPT ![t] = ApplySet(@, r.fields)]
    /\ tver' = IF DOMAIN r.fields # {} THEN [tver EXCEPT ![t] = @ + 1] ELSE tver
    /\ tlock' = Unlock(tlock, c)
    /\ edt' = [edt EXCEPT ![c] = EdtDone(r, "ok")]
    /\ UNCHANGED <<events, bookings, redis, rsv, fin, rel, clr, gct, web, crt>>

\* res.json({ ticket }) or the error response has been sent: the caller's
\* next request.
EditReturn(c) ==
    /\ edt[c].pc = "done"
    /\ edt' = [edt EXCEPT ![c] = IdleEdt]
    /\ UNCHANGED <<durable, redis, rsv, fin, rel, clr, gct, web, crt>>

----------------------------------------------------------------------------
(* POST /events/:eventId/tickets *)

IdleCrt ==
    [pc |-> "idle", userId |-> "u1", eventId |-> "e1", body |-> Null, result |-> "none",
     ticketId |-> Null]

\* The _id of the document `new Ticket` makes: an id no stored ticket has.
NewTicketId(c) == "t5"

\* limit = perOrderLimit != null ? Number(perOrderLimit) : Math.min(total, 10)
DefaultLimit(total, perOrderLimit) ==
    IF perOrderLimit # Null THEN perOrderLimit[1]
    ELSE IF total < 10 THEN total ELSE 10

\* if (limit > total && total !== 0) throw
LimitExceedsTotal(limit, total) == limit > total /\ total # 0

\* The error the callback throws, or "none".
CreateError(r) ==
    IF r.eventId \notin DOMAIN events THEN "NotFound"
    ELSE IF assertOwnershipThrows(events[r.eventId], r.userId) THEN "Forbidden"
    ELSE IF r.body.qtyTotal < 0 THEN "BadRequest"
    ELSE LET limit == DefaultLimit(r.body.qtyTotal, r.body.perOrderLimit) IN
         IF limit <= 0 THEN "BadRequest"
         ELSE IF LimitExceedsTotal(limit, r.body.qtyTotal) THEN "BadRequest"
         ELSE "none"

\* new Ticket({...}): qtySold is the schema's default 0, status the body's
\* or "draft".
NewTicket(r) ==
    [eventId |-> r.eventId, name |-> r.body.name, priceCents |-> r.body.priceCents,
     currency |-> "USD", qtyTotal |-> r.body.qtyTotal, qtySold |-> 0,
     perOrderLimit |-> DefaultLimit(r.body.qtyTotal, r.body.perOrderLimit),
     salesStart |-> Null, salesEnd |-> Null,
     status |-> IF r.body.status # Null THEN r.body.status[1] ELSE "draft"]

\* The handler: the transaction reads the event and inserts one document,
\* which other operations see from its commit on; a throw of the callback
\* aborts it with nothing written.
TicketCreate(c, u, e, body) ==
    LET r == [IdleCrt EXCEPT !.userId = u, !.eventId = e, !.body = body]
        err == CreateError(r)
        id == NewTicketId(c)
    IN
    /\ crt[c].pc = "idle"
    /\ id \notin DOMAIN tickets
    /\ IF err # "none"
       THEN /\ crt' = [crt EXCEPT ![c] = [r EXCEPT !.pc = "done", !.result = err]]
            /\ UNCHANGED <<tickets, tlock, tver>>
       ELSE /\ crt' = [crt EXCEPT ![c] = [r EXCEPT !.pc = "done", !.result = "ok", !.ticketId = id]]
            /\ tickets' = [t \in DOMAIN tickets \cup {id} |->
                             IF t = id THEN NewTicket(r) ELSE tickets[t]]
            /\ tlock' = [t \in DOMAIN tlock \cup {id} |-> IF t = id THEN "none" ELSE tlock[t]]
            /\ tver' = [t \in DOMAIN tver \cup {id} |-> IF t = id THEN 0 ELSE tver[t]]
    /\ UNCHANGED <<events, bookings, redis, rsv, fin, edt, rel, clr, gct, web>>

----------------------------------------------------------------------------
(* The cart routes: GET /cart and DELETE /cart/:cartId/items/:ticketId *)

IdleWeb ==
    [pc |-> "idle", route |-> "none", userId |-> "u1", cartId |-> Null, ticketId |-> "t1",
     quantity |-> Null, status |-> 0, cart |-> Null]

\* The request has been answered: the status and the cart of the body.
WebDone(r, status, cart) == [r EXCEPT !.pc = "done", !.status = status, !.cart = cart]

\* The getCart call and the releaseCartItem call a request makes, and the
\* process that serves it.
GetOf == [w \in WebCalls |-> "q1"]
RelOf == [w \in WebCalls |-> "r1"]
WebProc == "p1"

\* if (!cart || cart.userId !== req.user.userId) return res.status(404)
CartNotFoundNoOwnerCheck(cart, userId) == cart = Null

CartNotFound(cart, userId) == cart = Null \/ cart.userId # userId

\* if (parsedQty != null && (!Number.isInteger(parsedQty) || parsedQty <= 0))
BadQuantity(quantity) == quantity # Null /\ quantity[1] <= 0

\* The handler up to its first await: req.user.userId of the authenticated
\* user, the cartId of the query or the path; GET answers 400 without one.
CartRouteCall(w, route, u, cid, t, q) ==
    LET r == [IdleWeb EXCEPT !.route = route, !.userId = u, !.cartId = cid,
                             !.ticketId = t, !.quantity = q]
    IN
    /\ web[w].pc = "idle"
    /\ web' = [web EXCEPT ![w] =
            IF cid = Null THEN WebDone(r, 400, Null) ELSE [r EXCEPT !.pc = "getCart"]]
    /\ UNCHANGED <<durable, redis, rsv, fin, edt, rel, clr, gct, crt>>

\* const cart = await getCart(cartId): the GET of the call.
CartRouteGetCart(w) ==
    /\ web[w].pc = "getCart"
    /\ GetCartCall(GetOf[w], web[w].cartId)

\* The owner check on the cart that getCart returned, and what follows it
\* without an await: the answer of GET /cart, the quantity check of DELETE.
CartRouteOwnerCheck(w) ==
    LET r == web[w]
        cart == gct[GetOf[w]].ret
    IN
    /\ r.pc = "getCart"
    /\ gct[GetOf[w]].pc = "done"
    /\ web' = [web EXCEPT ![w] =
            IF CartNotFound(cart, r.userId) THEN WebDone(r, 404, Null)
            ELSE IF r.route = "GET" THEN WebDone(r, 200, cart)
            ELSE IF BadQuantity(r.quantity) THEN WebDone(r, 400, Null)
            ELSE [r EXCEPT !.pc = "release"]]
    /\ UNCHANGED <<durable, redis, rsv, fin, edt, rel, clr, gct, crt>>

\* const updatedCart = await releaseCartItem({ cartId, ticketId, quantity })
CartRouteRelease(w) ==
    /\ web[w].pc = "release"
    /\ ReleaseCall(RelOf[w], WebProc, web[w].cartId, web[w].ticketId, web[w].quantity)

\* res.json({ cartId, cart: updatedCart })
CartRouteRespond(w) ==
    /\ web[w].pc = "release"
    /\ rel[RelOf[w]].pc = "done"
    /\ web' = [web EXCEPT ![w] = WebDone(web[w], 200, rel[RelOf[w]].ret)]
    /\ UNCHANGED <<durable, redis, rsv, fin, edt, rel, clr, gct, crt>>

----------------------------------------------------------------------------
(* Specifications *)

Init ==
    /\ tickets = InitTickets
    /\ events = InitEvents
    /\ bookings = {}
    /\ tlock = [t \in DOMAIN InitTickets |-> "none"]
    /\ tver = [t \in DOMAIN InitTickets |-> 0]
    /\ hold = <<>>
    /\ carts = <<>>
    /\ watched = [p \in Procs |-> {}]
    /\ dirty = [p \in Procs |-> FALSE]
    /\ rsv = [c \in RsvCalls |-> IdleRsv]
    /\ fin = [c \in FinCalls |-> IdleFin]
    /\ edt = [c \in EdtCalls |-> IdleEdt]
    /\ rel = [c \in RelCalls |-> IdleRel]
    /\ clr = [c \in ClrCalls |-> IdleClr]
    /\ gct = [c \in GetCalls |-> IdleGet]
    /\ web = [w \in WebCalls |-> IdleWeb]
    /\ crt = [c \in CrtCalls |-> IdleCrt]

\* The cart ids a client can send: none, the id of a stored cart, or an id
\* no cart is stored under.
ClientCartIds == {Null} \cup DOMAIN carts

NextReserve ==
    \E c \in RsvCalls :
        \/ \E t \in {"t1", "t2"}, q \in 1..MaxQuantity, cid \in ClientCartIds :
              ReserveCall(c, ProcOf[c], UserOf[c], t, q, cid)
        \/ RsvGetCart(c)
        \/ RsvWatch(c)
        \/ RsvGet(c)
        \/ RsvExec(c)
        \/ RsvUnwatch(c)

\* The instants a booking reads from the clock (new Date()): before, at the
\* start of, at the end of and after the sales window of ticket t1.
Times == {0, 1, 2, 3}

\* The booking requests. f1 sends any selector, quantity and instant against
\* the published event, or a request against the draft event or an event that
\* does not exist; f2 is a competing booking of the published event by the
\* default selector inside the sales window.
BookingRequests(c) ==
    IF c = "f1"
    THEN {[eventId |-> "e1", ticketId |-> tid, ticketType |-> ttype, qty |-> q, now |-> now] :
            tid \in {Null, <<"t1">>, <<"t3">>}, ttype \in {Null, <<"General">>},
            q \in 1..MaxQuantity, now \in Times}
         \cup {[eventId |-> e, ticketId |-> Null, ticketType |-> Null, qty |-> 1, now |-> 1] :
            e \in {"e2", "e9"}}
    ELSE {[eventId |-> "e1", ticketId |-> Null, ticketType |-> Null, qty |-> q, now |-> 1] :
            q \in 1..MaxQuantity}

\* The bodies of the modelled ticket edits: a new qtyTotal, a new
\* perOrderLimit or a new status.
EditBodies ==
    {[qtyTotal |-> <<n>>, perOrderLimit |-> Null, status |-> Null] : n \in 0..MaxQuantity + 2}
    \cup {[qtyTotal |-> Null, perOrderLimit |-> <<n>>, status |-> Null] : n \in 0..MaxQuantity}
    \cup {[qtyTotal |-> Null, perOrderLimit |-> Null, status |-> <<st>>] : st \in {"draft", "active"}}

NextBooking ==
    \/ \E c \in FinCalls :
        \/ \E in \in BookingRequests(c) :
              \E sel \in FindOneTicket(in.eventId, in.ticketId, in.ticketType) :
                BookingCall(c, in.eventId, in.ticketId, in.ticketType, in.qty, "u2", in.now, sel)
        \/ \E now \in Times :
              \E sel \in FindOneTicket(fin[c].eventId, fin[c].ticketId, fin[c].ticketType) :
                BookingRetry(c, now, sel)
        \/ BookingSaveTicket(c)
        \/ BookingSaveRecord(c)
        \/ BookingCommit(c)
        \/ BookingFail(c)
    \/ \E c \in EdtCalls :
        \/ \E u \in Users, body \in EditBodies : EditCall(c, u, "t1", body)
        \/ EditRetry(c)
        \/ EditSave(c)
        \/ EditCommit(c)

\* No call of the hold service is in flight.
Quiescent ==
    /\ \A c \in RsvCalls : rsv[c].pc \in {"idle", "done"}
    /\ \A c \in RelCalls : rel[c].pc \in {"idle", "done"}
    /\ \A c \in ClrCalls : clr[c].pc \in {"idle", "done"}

\* The caller has taken the result of call c; the next request uses the
\* record.
RsvReturn(c) ==
    /\ rsv[c].pc = "done"
    /\ rsv' = [rsv EXCEPT ![c] = IdleRsv]
    /\ UNCHANGED <<durable, redis, fin, edt, rel, clr, gct, web, crt>>

RelReturn(c) ==
    /\ rel[c].pc = "done"
    /\ rel' = [rel EXCEPT ![c] = IdleRel]
    /\ UNCHANGED <<durable, redis, rsv, fin, edt, clr, gct, web, crt>>

ClrReturn(c) ==
    /\ clr[c].pc = "done"
    /\ clr' = [clr EXCEPT ![c] = IdleClr]
    /\ UNCHANGED <<durable, redis, rsv, fin, edt, rel, gct, web, crt>>

\* The cart ids a client can send to release or clear: the id of a stored
\* cart or one it was given earlier.
KnownCartIds == DOMAIN carts \cup {<<c, 1>> : c \in RsvCalls}

\* The quantity of a release: left out, or a positive integer.
ReleaseQuantities == {Null} \cup {<<n>> : n \in 1..MaxQuantity}

\* The tickets of the published event that are on sale.
OnSale == {"t1", "t4"}

\* A step of a call in flight.
RsvRun == \E c \in RsvCalls : RsvGetCart(c) \/ RsvWatch(c) \/ RsvGet(c) \/ RsvExec(c) \/ RsvUnwatch(c)

RelRun == \E c \in RelCalls : RelDecrby(c) \/ RelHoldTtl(c) \/ RelCart(c)

ClrRun == \E c \in ClrCalls : ClrDecrby(c) \/ ClrHoldTtl(c) \/ ClrDelCart(c)

HoldServiceStep == RsvRun \/ RelRun \/ ClrRun

\* A request record generates the cart ids <<c, n>>: it takes a request that
\* may create a cart only while no stored cart has one of them, so that a
\* generated id is a fresh one.
FreshIds(c, cid) == cid \in DOMAIN carts \/ \A id \in DOMAIN carts : id[1] # c

\* The calls of one user to the hold service, one after the other, each run
\* to its end before the next starts. A reserve starts when every earlier
\* result was taken, a release or a clear when those of the earlier releases
\* and clears were: the reserve before it is still known.
NextSerial ==
    \/ /\ Quiescent
       /\ \A c \in RelCalls : rel[c].pc = "idle"
       /\ \A c \in ClrCalls : clr[c].pc = "idle"
       /\ \/ /\ \A c \in RsvCalls : rsv[c].pc = "idle"
             /\ \E t \in OnSale, q \in 1..MaxQuantity, cid \in ClientCartIds :
                    FreshIds("a", cid) /\ ReserveCall("a", ProcOf["a"], UserOf["a"], t, q, cid)
          \/ \E cid \in KnownCartIds, t \in OnSale, q \in ReleaseQuantities :
                ReleaseCall("r1", "p1", cid, t, q)
          \/ \E cid \in KnownCartIds : ClearCall("k1", "p1", cid)
    \/ HoldServiceStep
    \/ \E c \in RsvCalls : RsvReturn(c)
    \/ \E c \in RelCalls : RelReturn(c)
    \/ \E c \in ClrCalls : ClrReturn(c)

SpecSerial == Init /\ [][NextSerial]_vars

\* Reserves of two users one after the other, each of which the buyer may
\* take back (a release of the quantity the reserve asked for, from the cart
\* it returned), with time passing between the calls: a key is dropped when
\* its time to live has run out.
NextExpiry ==
    \/ /\ Quiescent
       /\ \/ \E c \in RsvCalls, t \in OnSale, q \in 1..MaxQuantity, cid \in ClientCartIds :
                ReserveCall(c, ProcOf[c], UserOf[c], t, q, cid)
          \/ \E d \in RsvCalls :
                /\ rsv[d].result = "ok"
                /\ ReleaseCall("r1", ProcOf[d], rsv[d].ret.cartId, rsv[d].ticketId,
                               <<rsv[d].quantity>>)
    \/ RsvRun
    \/ RelRun
    \/ Tick

SpecExpiry == Init /\ [][NextExpiry]_vars

\* Reserves of two users and clears of their carts, one call after the
\* other: the first user fills a cart line by line, the second holds units
\* of ticket t1 in a cart of one line. No key expires.
NextClear ==
    \/ /\ Quiescent
       /\ \A c \in ClrCalls : clr[c].pc = "idle"
       /\ \A c \in RsvCalls : rsv[c].pc = "idle"
       /\ \/ \E t \in OnSale, q \in 1..MaxQuantity, cid \in ClientCartIds :
                FreshIds("a", cid) /\ ReserveCall("a", ProcOf["a"], UserOf["a"], t, q, cid)
          \/ \E q \in 1..MaxQuantity :
                FreshIds("c", Null) /\ ReserveCall("c", ProcOf["c"], UserOf["c"], "t1", q, Null)
          \/ \E cid \in KnownCartIds : ClearCall("k1", "p1", cid)
    \/ RsvRun
    \/ ClrRun
    \/ \E c \in RsvCalls : RsvReturn(c)
    \/ \E c \in ClrCalls : ClrReturn(c)

SpecClear == Init /\ [][NextClear]_vars

\* The tickets of the published event the concurrent calls ask for: one on
\* sale, one archived.
Listed == {"t1", "t3"}

\* Concurrent calls of the hold service: two reserves of one user served by
\* one process, a release and a clear served by another, every step of one
\* interleaved with the steps of the others. No key expires.
NextHold ==
    \/ \E c \in {"a", "b"}, t \in Listed, q \in 1..MaxQuantity, cid \in ClientCartIds :
          ReserveCall(c, ProcOf[c], UserOf[c], t, q, cid)
    \/ \E cid \in KnownCartIds, t \in Listed, q \in ReleaseQuantities :
          ReleaseCall("r1", "p2", cid, t, q)
    \/ \E cid \in KnownCartIds : ClearCall("k1", "p2", cid)
    \/ HoldServiceStep

SpecHold == Init /\ [][NextHold]_vars

\* The selectors of a booking request: a ticket id or none, a ticket name or
\* none.
TicketIds == {Null, <<"t1">>, <<"t4">>}
TicketTypes == {Null, <<"General">>, <<"Balcony">>}

\* Two bookings of the published event at the same time, inside the sales
\* window, each by the default selector, by the id of an active ticket, by a
\* ticket name or by both, every step of one interleaved with the steps of
\* the other; no edit.
NextFinalize ==
    \E c \in FinCalls :
        \/ \E q \in 1..MaxQuantity, tid \in TicketIds, ttype \in TicketTypes :
              \E sel \in FindOneTicket("e1", tid, ttype) :
                BookingCall(c, "e1", tid, ttype, q, IF c = "f1" THEN "u1" ELSE "u2", 1, sel)
        \/ \E sel \in FindOneTicket(fin[c].eventId, fin[c].ticketId, fin[c].ticketType) :
              BookingRetry(c, 1, sel)
        \/ BookingSaveTicket(c)
        \/ BookingSaveRecord(c)
        \/ BookingCommit(c)
        \/ BookingFail(c)

SpecFinalize == Init /\ [][NextFinalize]_vars

\* The cart user u1 adds to: the one its first reserve created, if stored.
FirstCart == IF <<"a", 1>> \in DOMAIN carts THEN <<"a", 1>> ELSE Null

\* Two reserves at the same time by different users: user u1 may have
\* reserved before (call a, run to its end), then call b of u1, which adds to
\* u1's cart when there is one, and call c of u2, which asks for ticket t1 in
\* a new cart, run with their steps interleaved.
NextPair ==
    \/ /\ rsv["b"].pc = "idle" /\ rsv["c"].pc = "idle"
       /\ \E t \in OnSale, q \in 1..MaxQuantity :
             ReserveCall("a", ProcOf["a"], UserOf["a"], t, q, Null)
    \/ /\ rsv["a"].pc \in {"idle", "done"}
       /\ \/ \E t \in OnSale, q \in 1..MaxQuantity :
                ReserveCall("b", ProcOf["b"], UserOf["b"], t, q, FirstCart)
          \/ \E q \in 1..MaxQuantity : ReserveCall("c", ProcOf["c"], UserOf["c"], "t1", q, Null)
    \/ RsvRun

SpecPair == Init /\ [][NextPair]_vars

\* A step of a booking or of a ticket edit in flight.
FinRun ==
    \E c \in FinCalls :
        \/ \E now \in Times :
              \E sel \in FindOneTicket(fin[c].eventId, fin[c].ticketId, fin[c].ticketType) :
                BookingRetry(c, now, sel)
        \/ BookingSaveTicket(c)
        \/ BookingSaveRecord(c)
        \/ BookingCommit(c)
        \/ BookingFail(c)

EdtRun == \E c \in EdtCalls : EditRetry(c) \/ EditSave(c) \/ EditCommit(c)

\* The hold service and the durable store side by side: reserves of ticket
\* t1 by two users, a booking of the event's cheapest active
\* ticket (t1) by the second user inside the sales window, and an edit of
\* t1's qtyTotal by the organiser, every step of one interleaved with the
\* steps of the others.
NextMarket ==
    \/ \E c \in {"a", "c"}, q \in 1..MaxQuantity, cid \in ClientCartIds :
          ReserveCall(c, ProcOf[c], UserOf[c], "t1", q, cid)
    \/ RsvRun
    \/ \E q \in 1..MaxQuantity : \E sel \in FindOneTicket("e1", Null, Null) :
          BookingCall("f1", "e1", Null, Null, q, "u2", 1, sel)
    \/ FinRun
    \/ \E n \in 0..MaxQuantity + 2 :
          EditCall("g1", "u1", "t1", [qtyTotal |-> <<n>>, perOrderLimit |-> Null, status |-> Null])
    \/ EdtRun

SpecMarket == Init /\ [][NextMarket]_vars

\* A client that reads a cart while a user reserves twice and clears a cart
\* and time passes: a key may be deleted or expire between the two commands of a
\* getCart.
NextRead ==
    \/ \E c \in {"a", "b"}, q \in 1..MaxQuantity, cid \in ClientCartIds :
          ReserveCall(c, ProcOf[c], UserOf[c], "t1", q, cid)
    \/ RsvRun
    \/ \E cid \in KnownCartIds : ClearCall("k1", "p1", cid)
    \/ ClrRun
    \/ Tick
    \/ \E c \in GetCalls :
          \/ \E cid \in {Null} \cup KnownCartIds : GetCartCall(c, cid)
          \/ GetCartTtl(c)

SpecRead == Init /\ [][NextRead]_vars

\* The cart routes against carts of both users: reserves of u1 and of u2
\* with any cart id, and one GET /cart or DELETE request of either user for
\* any cart id, with any quantity.
NextRoutes ==
    \/ \E c \in {"a", "c"}, q \in 1..MaxQuantity, cid \in ClientCartIds :
          ReserveCall(c, ProcOf[c], UserOf[c], "t1", q, cid)
    \/ RsvRun
    \/ \E w \in WebCalls, u \in Users, cid \in {Null} \cup KnownCartIds :
          \/ CartRouteCall(w, "GET", u, cid, "t1", Null)
          \/ \E q \in ReleaseQuantities \cup {<<0>>} :
                cid # Null /\ CartRouteCall(w, "DELETE", u, cid, "t1", q)
    \/ \E w \in WebCalls :
          \/ CartRouteGetCart(w)
          \/ CartRouteOwnerCheck(w)
          \/ CartRouteRelease(w)
          \/ CartRouteRespond(w)
    \/ \E c \in GetCalls : GetCartTtl(c)
    \/ RelRun
    \/ Tick

SpecRoutes == Init /\ [][NextRoutes]_vars

\* The bodies of POST /events/:eventId/tickets: a qtyTotal that is negative,
\* zero or positive, without a perOrderLimit or with one above the qtyTotal.
CreateBodies ==
    {[name |-> "Standing", priceCents |-> 300, qtyTotal |-> n, perOrderLimit |-> l, status |-> Null] :
        n \in {0 - 1, 0, MaxQuantity - 2},
        l \in {Null, <<MaxQuantity - 1>>}}

\* The committed writes of a ticket after which no further edit of it is sent.
MaxEdits == 2

\* The bodies of the ticket edits that set qtyTotal, perOrderLimit or both.
QuantityEditBodies ==
    {[qtyTotal |-> n, perOrderLimit |-> l, status |-> Null] :
        n \in {Null} \cup {<<k>> : k \in {0, 1, MaxQuantity}},
        l \in {Null} \cup {<<k>> : k \in {0, MaxQuantity - 1}}}
    \ {[qtyTotal |-> Null, perOrderLimit |-> Null, status |-> Null]}

\* The organiser's requests one after another: a ticket is created by either
\* user and tickets are edited any number of times, while one booking of the
\* event runs.
NextTickets ==
    \/ \E c \in CrtCalls, u \in Users, body \in CreateBodies :
          TicketCreate(c, u, "e1", body)
    \/ \E t \in {"t1", "t5"}, body \in QuantityEditBodies :
          /\ t \in DOMAIN tver => tver[t] < MaxEdits
          /\ EditCall("g1", "u1", t, body)
    \/ EdtRun
    \/ EditReturn("g1")
    \/ \E q \in 1..MaxQuantity :
          \E sel \in FindOneTicket("e1", Null, Null) :
             BookingCall("f1", "e1", Null, Null, q, "u2", 1, sel)
    \/ \E sel \in FindOneTicket("e1", Null, Null) : BookingRetry("f1", 1, sel)
    \/ BookingSaveTicket("f1")
    \/ BookingSaveRecord("f1")
    \/ BookingCommit("f1")

SpecTickets == Init /\ [][NextTickets]_vars

\* Every operation on ticket t1 side by side: a reserve into a new cart, a
\* release of a whole line and a clear of a cart, the expiry of keys while
\* no call of the hold service is in flight, a booking by the default
\* selector inside the sales window and an edit of qtyTotal.
NextLedger ==
    \/ \E q \in 1..MaxQuantity : ReserveCall("a", ProcOf["a"], UserOf["a"], "t1", q, Null)
    \/ \E cid \in KnownCartIds : ReleaseCall("r1", "p1", cid, "t1", Null)
    \/ \E cid \in KnownCartIds : ClearCall("k1", "p1", cid)
    \/ \E c \in RsvCalls : RsvWatch(c) \/ RsvGet(c) \/ RsvExec(c) \/ RsvUnwatch(c)
    \/ RelRun
    \/ ClrRun
    \/ Tick
    \/ \E q \in 1..MaxQuantity : \E sel \in FindOneTicket("e1", Null, Null) :
          BookingCall("f1", "e1", Null, Null, q, "u2", 1, sel)
    \/ FinRun
    \/ \E n \in 0..MaxQuantity + 2 :
          EditCall("g1", "u1", "t1", [qtyTotal |-> <<n>>, perOrderLimit |-> Null, status |-> Null])
    \/ EdtRun

SpecLedger == Init /\ [][NextLedger]_vars

\* Concurrent bookings and ticket edits against MongoDB.
SpecBooking == Init /\ [][NextBooking]_vars

\* Concurrent reserveTickets calls only: tickets fixed, no release, no expiry.
SpecReserve == Init /\ [][NextReserve]_vars

----------------------------------------------------------------------------
(* Claims *)

RECURSIVE SumQty(_, _)
SumQty(S, q) == IF S = {} THEN 0 ELSE LET x == CHOOSE y \in S : TRUE IN q[x] + SumQty(S \ {x}, q)

RsvQty == [c \in RsvCalls |-> rsv[c].quantity]

\* The reserve calls against ticket t that have returned a cart.
Succeeded(t) == {c \in RsvCalls : rsv[c].result = "ok" /\ rsv[c].ticketId = t}

\* The reserve calls against ticket t that ended in the attempt loop: valid
\* requests, granted or refused for inventory or contention.
Contended(t) ==
    {c \in RsvCalls : rsv[c].ticketId = t /\ rsv[c].result \in {"ok", "Insufficient", "Conflict"}}

Capacity(t) == tickets[t].qtyTotal - tickets[t].qtySold

\* The step is one of call c.
RsvStep(c) == rsv'[c] # rsv[c]

\* C1: the quantities granted to the reserve calls that succeeded against a
\* ticket never sum to more than qtyTotal - qtySold.
C1_GrantedWithinCapacity ==
    \A t \in DOMAIN tickets : SumQty(Succeeded(t), RsvQty) <= Capacity(t)

\* C2: once all calls have returned, if the valid requests against a ticket
\* asked for more than qtyTotal - qtySold in total, one of them failed with
\* the insufficient-inventory error.
C2_OneFailsInsufficient ==
    \A t \in DOMAIN tickets :
        ((\A c \in RsvCalls : rsv[c].pc = "done") /\ SumQty(Contended(t), RsvQty) > Capacity(t))
            => \E c \in Contended(t) : rsv[c].result = "Insufficient"

\* C7: the hold counter and the cart move together or not at all: a step of
\* a reserve call that returns the cart raises the counter by the quantity
\* and stores the call's cart; every other step of a reserve call, the ones
\* that end it with an error included, leaves every counter and every cart
\* as it was.
C7_HoldAndCartTogether ==
    [][\A c \in RsvCalls :
          RsvStep(c) =>
            IF rsv'[c].result = "ok"
            THEN /\ rsv[c].ticketId \in DOMAIN hold'
                 /\ hold'[rsv[c].ticketId].v = ReadHold(rsv[c].ticketId) + rsv[c].quantity
                 /\ rsv'[c].ret.cartId \in DOMAIN carts'
                 /\ carts'[rsv'[c].ret.cartId].doc = serializeCart(rsv'[c].ret.cart)
                 /\ rsv[c].ticketId \in DOMAIN carts'[rsv'[c].ret.cartId].doc.items
            ELSE hold' = hold /\ carts' = carts]_vars

\* A call was refused by a nil EXEC while another call's hold and cart stand.
C7_Witness ==
    \E c, d \in RsvCalls :
        /\ rsv[c].pc = "unwatch" /\ rsv[c].lastError = "Conflict"
        /\ rsv[d].result = "ok" /\ rsv[d].ticketId = rsv[c].ticketId
        /\ rsv[d].ticketId \in DOMAIN hold

\* C8: a reserve that succeeds raises the hold counter by the quantity and
\* leaves the cart's line at its quantity before the call plus the quantity,
\* and returns the cart as stored.
C8_LineIsOldPlusQuantity ==
    [][\A c \in RsvCalls :
          (RsvStep(c) /\ rsv'[c].result = "ok") =>
            /\ hold'[rsv[c].ticketId].v = ReadHold(rsv[c].ticketId) + rsv[c].quantity
            /\ carts'[rsv'[c].ret.cartId].doc.items[rsv[c].ticketId].quantity
                 = rsv[c].preQty + rsv[c].quantity
            /\ carts'[rsv'[c].ret.cartId].doc = serializeCart(rsv'[c].ret.cart)]_vars

\* C9: an attempt that reads a hold counter leaving less than the quantity
\* ends the call with the insufficient-inventory error: the next step of the
\* call is its last, no attempt follows, and no counter or cart changes.
C9_InsufficientIsTerminal ==
    [][\A c \in RsvCalls :
          /\ (RsvStep(c) /\ rsv[c].pc = "get"
                /\ rsv[c].quantity > Capacity(rsv[c].ticketId) - ReadHold(rsv[c].ticketId))
               => /\ rsv'[c].pc = "unwatch" /\ rsv'[c].lastError = "Insufficient"
                  /\ rsv'[c].i = rsv[c].i
                  /\ hold' = hold /\ carts' = carts
          /\ (RsvStep(c) /\ rsv[c].pc = "unwatch" /\ rsv[c].lastError = "Insufficient")
               => /\ rsv'[c].pc = "done" /\ rsv'[c].result = "Insufficient"
                  /\ hold' = hold /\ carts' = carts]_vars

\* A call of which an attempt after the first read too little inventory has
\* ended with the insufficient-inventory error.
C9_Witness ==
    \E c, d \in RsvCalls :
        /\ rsv[c].pc = "done" /\ rsv[c].result = "Insufficient"
        /\ rsv[d].pc = "unwatch" /\ rsv[d].lastError = "Insufficient" /\ rsv[d].i > 0

\* C10: a reserve whose quantity, alone or merged with the cart's line,
\* exceeds perOrderLimit ends at once with the validation error: the step
\* that detects it is the call's last and changes no counter and no cart.
C10_ValidationAbortsAtOnce ==
    [][\A c \in RsvCalls :
          (/\ RsvStep(c) /\ rsv[c].pc \in {"idle", "get"}
           /\ \/ rsv'[c].result = "Validation"
              \/ (rsv'[c].pc = "watch" /\ rsv'[c].lastError = "Validation"))
            => /\ rsv'[c].pc = "done" /\ rsv'[c].result = "Validation"
               /\ hold' = hold /\ carts' = carts]_vars

FinQty == [c \in FinCalls |-> fin[c].qty]

\* The booking calls that succeeded with ticket t.
Booked(t) == {c \in FinCalls : fin[c].result = "ok" /\ fin[c].sel = <<t>>}

\* C3: under every interleaving of booking and ticket-edit transactions,
\* 0 <= qtySold <= qtyTotal for every ticket.
C3_SoldWithinTotal ==
    \A t \in DOMAIN tickets : 0 <= tickets[t].qtySold /\ tickets[t].qtySold <= tickets[t].qtyTotal

\* An edit has lowered qtyTotal of t1 to what is sold, after a booking of it
\* committed and while another booking has met a write conflict.
C3_Witness ==
    /\ edt["g1"].result = "ok"
    /\ tickets["t1"].qtyTotal < InitTickets["t1"].qtyTotal
    /\ tickets["t1"].qtyTotal = tickets["t1"].qtySold
    /\ \E c, d \in FinCalls : fin[c].result = "ok" /\ fin[d].pc = "retry"

\* C4: a booking call that fails, by a check or by a failure forced between
\* the inventory check and the commit, leaves nothing behind: qtySold of a
\* ticket is its initial value plus the quantities of the calls that
\* succeeded with it, and the booking records are those of the calls that
\* succeeded.
C4_FailedBookingLeavesNothing ==
    /\ \A t \in DOMAIN tickets :
          tickets[t].qtySold = InitTickets[t].qtySold + SumQty(Booked(t), FinQty)
    /\ {b.id : b \in bookings} = {c \in FinCalls : fin[c].result = "ok"}

\* A booking failed after both of its saves, before the commit, beside one
\* that succeeded.
C4_Witness ==
    \E c, d \in FinCalls :
        /\ fin[c].result = "Error" /\ fin[c].failedAt = "commit"
        /\ fin[d].result = "ok"

\* The conditions of C5 for a request read at instant `now`.
C5_EventOk(in) == in.eventId \in DOMAIN events /\ events[in.eventId].status = "published"

C5_Matching(in) ==
    {t \in DOMAIN tickets :
        /\ tickets[t].eventId = in.eventId /\ tickets[t].status = "active"
        /\ in.ticketId # Null => in.ticketId = <<t>>
        /\ in.ticketType # Null => in.ticketType = <<tickets[t].name>>}

C5_InWindow(t, now) ==
    /\ tickets[t].salesStart # Null => tickets[t].salesStart[1] <= now
    /\ tickets[t].salesEnd # Null => now <= tickets[t].salesEnd[1]

C5_AllHold(in, sel) ==
    /\ C5_EventOk(in)
    /\ sel # Null /\ sel[1] \in C5_Matching(in)
    /\ C5_InWindow(sel[1], in.now)
    /\ in.qty <= tickets[sel[1]].perOrderLimit
    /\ tickets[sel[1]].qtySold + in.qty <= tickets[sel[1]].qtyTotal

C5_Verdict(in, sel) ==
    BookingError([IdleFin EXCEPT !.eventId = in.eventId, !.ticketId = in.ticketId,
                                 !.ticketType = in.ticketType, !.qty = in.qty], in.now, sel)

\* C5: in every state, for every request, the transaction goes on to book
\* exactly when the event is published, an active ticket of it matches the
\* selector, the instant is inside the sales window, the quantity is within
\* perOrderLimit and qtySold + quantity <= qtyTotal; every error it throws
\* instead names a condition that is violated; and a call commits only while
\* these conditions hold of the stored ticket.
C5_SucceedsIffChecksHold ==
    /\ [](\A in \in BookingRequests("f1") :
            \A sel \in FindOneTicket(in.eventId, in.ticketId, in.ticketType) :
                LET err == C5_Verdict(in, sel) IN
                /\ err = "none" <=> C5_AllHold(in, sel)
                /\ err = "NotFound" => in.eventId \notin DOMAIN events
                /\ err = "InvalidState" => events[in.eventId].status # "published"
                /\ err = "NoInventory" => C5_Matching(in) = {}
                /\ err = "SalesNotStarted" => in.now < tickets[sel[1]].salesStart[1]
                /\ err = "SalesClosed" => in.now > tickets[sel[1]].salesEnd[1]
                /\ err = "LimitExceeded" => in.qty > tickets[sel[1]].perOrderLimit
                /\ err = "Insufficient" => tickets[sel[1]].qtySold + in.qty > tickets[sel[1]].qtyTotal)
    /\ [][\A c \in FinCalls :
            (fin[c].result # "ok" /\ fin'[c].result = "ok") =>
                LET t == fin[c].sel[1] IN
                /\ events[fin[c].eventId].status = "published"
                /\ tickets[t].eventId = fin[c].eventId /\ tickets[t].status = "active"
                /\ fin[c].qty <= tickets[t].perOrderLimit
                /\ tickets[t].qtySold + fin[c].qty <= tickets[t].qtyTotal]_vars

\* A booking succeeded after an edit changed the ticket, and one was refused.
C5_Witness ==
    /\ edt["g1"].result = "ok" /\ tver["t1"] >= 2
    /\ \E c, d \in FinCalls : fin[c].result = "ok" /\ fin[d].result \in {"Insufficient", "LimitExceeded"}

\* C6: the commit of a booking raises qtySold of the ticket by exactly the
\* quantity and adds exactly one booking record, with that quantity, status
\* confirmed and total_amount = priceCents * quantity / 100.
C6_CommitAddsQuantityAndRecord ==
    [][\A c \in FinCalls :
          (fin[c].result # "ok" /\ fin'[c].result = "ok") =>
            LET t == fin'[c].sel[1] IN
            /\ tickets'[t].qtySold = tickets[t].qtySold + fin'[c].qty
            /\ \E b \in bookings' :
                /\ bookings' \ bookings = {b} /\ bookings \subseteq bookings'
                /\ b.quantity = fin'[c].qty /\ b.booking_status = "confirmed"
                /\ b.total_amount.num = tickets[t].priceCents * fin'[c].qty
                /\ b.total_amount.den = 100]_vars

\* Two bookings of more than one ticket each have committed on t1.
C6_Witness ==
    /\ Cardinality(bookings) = 2
    /\ \A b \in bookings : b.quantity = 2
    /\ tickets["t1"].qtySold = InitTickets["t1"].qtySold + 4

\* C11: a reserve call runs the read-validate-apply sequence at most 3
\* times; it starts a further attempt only after a nil EXEC (the conflict);
\* and when the third attempt is rejected by a conflict the call ends with
\* the conflict error.
C11_RetryOnlyOnConflict ==
    [][\A c \in RsvCalls :
          /\ rsv'[c].i < attempts
          /\ rsv'[c].i = rsv[c].i + 1
               => rsv[c].pc = "unwatch" /\ rsv[c].lastError = "Conflict"
          /\ (RsvStep(c) /\ rsv[c].pc = "unwatch" /\ rsv[c].lastError = "Conflict"
                /\ rsv[c].i = attempts - 1)
               => rsv'[c].pc = "done" /\ rsv'[c].result = "Conflict"]_vars

\* The quantity of ticket t in the stored cart id.
LineQty(id, t) ==
    IF t \in DOMAIN carts[id].doc.items THEN carts[id].doc.items[t].quantity ELSE 0

\* The sum of the line quantities of ticket t over the stored carts.
HeldInCarts(t) == SumQty(DOMAIN carts, [id \in DOMAIN carts |-> LineQty(id, t)])

\* C12: whenever no call of the hold service is in flight, the hold counter
\* of each ticket (an absent key counts 0) is the sum of the ticket's line
\* quantities over the stored carts.
C12_HoldIsSumOfLines ==
    Quiescent => \A t \in DOMAIN tickets : ReadHold(t) = HeldInCarts(t)

\* C13: a cart that has expired no longer counts against availability:
\* whenever no call is in flight, the hold counter of a ticket counts no more
\* than the ticket's lines in the carts that are still stored, and with no
\* cart left it counts nothing (available = qtyTotal - qtySold).
C13_ExpiredCartsDoNotCount ==
    Quiescent =>
        \A t \in DOMAIN tickets :
            /\ ReadHold(t) <= HeldInCarts(t)
            /\ DOMAIN carts = {} => ReadHold(t) = 0

\* The step is one of release call c.
RelStep(c) == rel'[c] # rel[c]

\* The value of the counter of ticket t in the counters h, an absent key
\* counting 0.
HoldValue(h, t) == IF t \in DOMAIN h THEN h[t].v ELSE 0

\* What a release of `quantity` takes from a line of L units: the whole line
\* when the quantity is left out, never more than the line.
Released(quantity, L) ==
    IF quantity = Null THEN L ELSE IF quantity[1] < L THEN quantity[1] ELSE L

\* C14: a release on a cart that has the line takes the same amount from the
\* ticket's hold counter (DECRBY) and from the line: the quantity, at most
\* the line, the whole line when the quantity is left out. A counter that
\* DECRBY leaves at or below zero is deleted: it reads zero, never less. The
\* line is removed when nothing is left of it and the cart key deleted when
\* no line remains; no other cart changes; a getCart that follows shows the
\* cart as returned, and null after the cart's last line was released.
C14_ReleaseLowersLineAndHold ==
    [][\A c \in RelCalls :
          LET r == rel[c]
              t == r.ticketId
              L == carts[r.cartId].doc.items[t].quantity
              amount == Released(r.quantity, L)
          IN
          /\ (RelStep(c) /\ r.pc = "decrby")
               => /\ hold'[t].v = ReadHold(t) - amount
                  /\ carts' = carts
          /\ (RelStep(c) /\ r.pc = "holdTtl")
               => /\ HoldValue(hold', t) = IF hold[t].v > 0 THEN hold[t].v ELSE 0
                  /\ carts' = carts
          /\ (RelStep(c) /\ r.pc = "cart")
               => /\ hold' = hold
                  /\ LET rest == [k \in DOMAIN carts[r.cartId].doc.items \ {t} |->
                                    carts[r.cartId].doc.items[k]]
                     IN IF L - amount > 0
                        THEN /\ carts'[r.cartId].doc.items[t].quantity = L - amount
                             /\ \A k \in DOMAIN rest : carts'[r.cartId].doc.items[k] = rest[k]
                             /\ getCartFrom(carts', r.cartId) = rel'[c].ret
                        ELSE IF DOMAIN rest # {}
                        THEN /\ carts'[r.cartId].doc.items = rest
                             /\ getCartFrom(carts', r.cartId) = rel'[c].ret
                        ELSE /\ r.cartId \notin DOMAIN carts'
                             /\ getCartFrom(carts', r.cartId) = Null /\ rel'[c].ret = Null
                  /\ \A id \in DOMAIN carts \ {r.cartId} : id \in DOMAIN carts' /\ carts'[id] = carts[id]]_vars

\* A release has returned a cart that keeps a line of a ticket, and the
\* ticket's counter stands at that line's quantity.
C14_Witness ==
    /\ rel["r1"].pc = "done" /\ rel["r1"].result = "ok"
    /\ rel["r1"].ret # Null
    /\ \E t \in DOMAIN hold : hold[t].v > 0 /\ t \in DOMAIN rel["r1"].ret.items
                              /\ rel["r1"].ret.items[t].quantity = hold[t].v

\* Release call c takes back what reserve call d put into a fresh cart: d
\* created the cart with the one line of its quantity, c releases that
\* quantity of that ticket from that cart, and the cart is stored as d
\* returned it.
TakesBack(c, d) ==
    /\ rsv[d].result = "ok"
    /\ rel[c].cartId = rsv[d].ret.cartId
    /\ rel[c].ticketId = rsv[d].ticketId
    /\ rel[c].quantity = <<rsv[d].quantity>>
    /\ DOMAIN rsv[d].ret.cart.items = {rsv[d].ticketId}
    /\ rsv[d].ret.cart.items[rsv[d].ticketId].quantity = rsv[d].quantity
    /\ rel[c].cartId \in DOMAIN carts
    /\ carts[rel[c].cartId].doc = serializeCart(rsv[d].ret.cart)

\* C15: a reserve of q into a fresh cart followed, with nothing in between,
\* by the release of q from that cart leaves the ticket's hold counter at the
\* value the reserve found (no key when there was none) and leaves no cart.
\* Nothing in between: the release meets the counter and the cart as the
\* reserve left them.
C15_ReserveThenReleaseRestores ==
    [][\A c \in RelCalls, d \in RsvCalls :
          LET t == rel[c].ticketId
              before == rsv[d].currentHold
          IN
          /\ (RelStep(c) /\ rel[c].pc = "decrby" /\ TakesBack(c, d)
                /\ ReadHold(t) = before + rsv[d].quantity)
               => hold'[t].v = before
          /\ (RelStep(c) /\ rel[c].pc = "holdTtl" /\ TakesBack(c, d)
                /\ rel[c].newHold = before /\ ReadHold(t) = before)
               => /\ HoldValue(hold', t) = before
                  /\ before = 0 => t \notin DOMAIN hold'
                  /\ before > 0 => hold'[t].ttl = HOLD_SECONDS
          /\ (RelStep(c) /\ rel[c].pc = "cart" /\ TakesBack(c, d)
                /\ rel[c].newHold = before /\ ReadHold(t) = before)
               => /\ hold' = hold
                  /\ rel[c].cartId \notin DOMAIN carts'
                  /\ rel'[c].ret = Null]_vars

\* A reserve into a fresh cart that found the counter above zero was taken
\* back: the counter stands at the value found and the cart is gone.
C15_Witness ==
    \E d \in RsvCalls :
        /\ rsv[d].result = "ok" /\ rsv[d].currentHold > 0
        /\ DOMAIN rsv[d].ret.cart.items = {rsv[d].ticketId}
        /\ rsv[d].ret.cartId \notin DOMAIN carts
        /\ rel["r1"].pc = "done" /\ rel["r1"].result = "ok" /\ rel["r1"].ret = Null
        /\ ReadHold(rsv[d].ticketId) = rsv[d].currentHold

\* C16: a release of a cart that is not stored returns null, a release from
\* a cart that has no line of the ticket returns that cart as stored, and
\* neither changes a counter, a cart or a watch; only a release that finds
\* the line goes on to the store commands. After a release of a whole line
\* the line or the cart is gone, so that the same release again is one of
\* the two.
C16_ReleaseOfAbsentIsNoOp ==
    [][\A c \in RelCalls :
          /\ (rel[c].pc = "idle" /\ rel'[c].pc = "done")
               => /\ UNCHANGED <<hold, carts, watched, dirty>>
                  /\ \/ rel'[c].result = "null" /\ rel'[c].ret = Null
                     \/ /\ rel'[c].result = "unchanged"
                        /\ \E id \in DOMAIN carts : rel'[c].ret = getCart(id)
          /\ (rel[c].pc = "idle" /\ rel'[c].pc \notin {"idle", "done"})
               => /\ rel'[c].cartId \in DOMAIN carts
                  /\ rel'[c].ticketId \in DOMAIN carts[rel'[c].cartId].doc.items
          /\ (rel[c].pc = "cart" /\ rel'[c].pc = "done" /\ rel[c].newQuantity <= 0)
               => \/ rel[c].cartId \notin DOMAIN carts'
                  \/ rel[c].ticketId \notin DOMAIN carts'[rel[c].cartId].doc.items]_vars

\* A release from a stored cart that has no line of the ticket has returned
\* the cart, and no key of the ticket's counter is stored.
C16_Witness ==
    /\ rel["r1"].pc = "done" /\ rel["r1"].result = "unchanged"
    /\ rel["r1"].ret.cartId \in DOMAIN carts
    /\ \E t \in OnSale : t \notin DOMAIN rel["r1"].ret.items /\ t \notin DOMAIN hold

\* C17: in every state, the states between the store commands of a release
\* or a clear included, a stored counter key holds a value above zero, and
\* no reserve has read a value below zero.
C17_HoldKeyAboveZero ==
    /\ \A t \in DOMAIN hold : hold[t].v > 0
    /\ \A c \in RsvCalls : rsv[c].currentHold >= 0

\* The counters h after a release in full of the lines n.. of the cart, one
\* after the other, each against a counter that has the time to live of a
\* reserve: a counter left above zero by HOLD_SECONDS, the others deleted.
RECURSIVE ReleasedInFull(_, _, _)
ReleasedInFull(h, cart, n) ==
    IF n > Len(cart.itemKeys) THEN h
    ELSE LET t == cart.itemKeys[n]
             left == HoldValue(h, t) - cart.items[t].quantity
             rest == [k \in DOMAIN h \ {t} |-> h[k]]
         IN ReleasedInFull(IF left > 0 THEN rest @@ (t :> [v |-> left, ttl |-> HOLD_SECONDS])
                           ELSE rest, cart, n + 1)

\* C18: when a clear of a stored cart has run, the cart key is gone and the
\* other carts are as they were; the counter of every ticket of the cart is
\* lower by the line's quantity, at least zero, and its key is gone at zero;
\* the other counters are as they were; the counters are those that a release
\* in full of every line leaves. A clear of a cart that is not stored changes
\* nothing.
C18_ClearReleasesEveryLine ==
    [][\A c \in ClrCalls :
          LET b == clr[c].before
              cart == clr[c].cart
          IN
          /\ (clr[c].pc = "delCart" /\ clr'[c].pc = "done")
               => /\ clr'[c].result = "ok"
                  /\ DOMAIN carts' = DOMAIN b.carts \ {clr[c].cartId}
                  /\ \A id \in DOMAIN carts' : carts'[id] = b.carts[id]
                  /\ \A t \in DOMAIN cart.items :
                        LET left == HoldValue(b.hold, t) - cart.items[t].quantity IN
                        /\ HoldValue(hold', t) = IF left > 0 THEN left ELSE 0
                        /\ t \in DOMAIN hold' <=> left > 0
                  /\ \A t \in (DOMAIN b.hold \cup DOMAIN hold') \ DOMAIN cart.items :
                        t \in DOMAIN b.hold /\ t \in DOMAIN hold' /\ hold'[t] = b.hold[t]
                  /\ hold' = ReleasedInFull(b.hold, cart, 1)
          /\ (clr[c].pc = "idle" /\ clr'[c].pc = "done")
               => /\ clr'[c].result = "absent"
                  /\ UNCHANGED <<hold, carts, watched, dirty>>
          /\ (clr[c].pc = "idle" /\ clr'[c].pc \notin {"idle", "done"})
               => clr'[c].cartId \in DOMAIN carts]_vars

\* A clear of a cart of two lines is about to delete the cart key: it has
\* deleted one counter, and the other counter still counts what another cart
\* holds.
C18_Witness ==
    LET r == clr["k1"] IN
    /\ r.pc = "delCart"
    /\ Len(r.cart.itemKeys) = 2
    /\ \E t \in DOMAIN r.cart.items : t \in DOMAIN r.before.hold /\ t \notin DOMAIN hold
    /\ \E t \in DOMAIN r.cart.items : ReadHold(t) > 0

\* C19: a reserve that names a stored cart of another user, or a stored cart
\* of another event than the ticket's, fails, and the step changes no
\* counter, no cart and no watch; and whenever a step of a reserve writes a
\* cart, the cart written is the caller's, and so was the cart stored under
\* that id before.
C19_ForeignCartRejected ==
    [][\A c \in RsvCalls :
          /\ (/\ RsvStep(c)
              /\ rsv[c].pc = "getCart"
              /\ rsv[c].cartId \in DOMAIN carts
              /\ \/ carts[rsv[c].cartId].doc.userId # rsv[c].userId
                 \/ carts[rsv[c].cartId].doc.eventId # rsv[c].ticket.eventId)
               => /\ rsv'[c].pc = "done"
                  /\ rsv'[c].result \in {"Forbidden", "EventMismatch"}
                  /\ rsv'[c].result = "Forbidden"
                        <=> carts[rsv[c].cartId].doc.userId # rsv[c].userId
                  /\ UNCHANGED <<hold, carts, watched, dirty>>
          /\ RsvStep(c)
               => \A id \in DOMAIN carts' :
                     (id \notin DOMAIN carts \/ carts'[id] # carts[id])
                        => /\ carts'[id].doc.userId = rsv[c].userId
                           /\ id \in DOMAIN carts => carts[id].doc.userId = rsv[c].userId]_vars

\* A reserve of user u2 that named the cart of user u1 has failed, a reserve
\* of u1 that named the cart for a ticket of another event has failed as
\* well, and the cart holds the line it was created with.
C19_Witness ==
    /\ rsv["c"].result = "Forbidden"
    /\ \E d \in {"a", "b"} : rsv[d].result = "EventMismatch"
    /\ \E id \in DOMAIN carts :
          carts[id].doc.userId = "u1" /\ HeldInCarts("t1") = ReadHold("t1") /\ ReadHold("t1") > 0

\* C20: holds exist only for tickets in status active: no reserve of a
\* ticket in another status has succeeded, no counter of such a ticket is
\* stored and no cart has a line of one.
C20_HoldsOnlyForActiveTickets ==
    /\ \A c \in RsvCalls :
          (rsv[c].pc = "done" /\ rsv[c].result = "ok") => tickets[rsv[c].ticketId].status = "active"
    /\ \A t \in DOMAIN hold : tickets[t].status = "active"
    /\ \A id \in DOMAIN carts : \A t \in DOMAIN carts[id].doc.items : tickets[t].status = "active"

\* The step is one of booking call c.
FinStep(c) == fin'[c] # fin[c]

\* C21: no step of a booking, whether the booking succeeds or fails, changes
\* a hold counter, a cart or a watch of a connection; and a booking commits
\* whatever the counter of its ticket says.
C21_BookingLeavesHoldStore ==
    [][\A c \in FinCalls : FinStep(c) => UNCHANGED <<hold, carts, watched, dirty>>]_vars

\* A booking of user u2 has committed while u2 has no cart and the units
\* held by the cart of user u1 together with the units sold exceed qtyTotal.
C21_Witness ==
    /\ fin["f1"].result = "ok" /\ fin["f1"].sel = <<"t1">>
    /\ \A id \in DOMAIN carts : carts[id].doc.userId # "u2"
    /\ ReadHold("t1") > 0
    /\ tickets["t1"].qtySold + ReadHold("t1") > tickets["t1"].qtyTotal

\* The units of ticket t that the first reserve of u1 put into u1's cart.
FirstTook(t) ==
    IF rsv["a"].result = "ok" /\ rsv["a"].ticketId = t THEN rsv["a"].quantity ELSE 0

\* C22: when the reserves b and c of different users, run at the same time
\* against ticket t, have both ended, and each quantity (for b together with
\* the line already in the cart) is within perOrderLimit, and the two
\* quantities together are at most qtyTotal - qtySold less the counter before
\* them, then both have succeeded and the counter is higher by their sum.
C22_BothConcurrentReservesSucceed ==
    \A t \in OnSale :
        (/\ rsv["a"].pc \in {"idle", "done"}
         /\ rsv["b"].pc = "done" /\ rsv["c"].pc = "done"
         /\ rsv["b"].ticketId = t /\ rsv["c"].ticketId = t
         /\ FirstTook(t) + rsv["b"].quantity <= tickets[t].perOrderLimit
         /\ rsv["c"].quantity <= tickets[t].perOrderLimit
         /\ rsv["b"].quantity + rsv["c"].quantity <= Capacity(t) - FirstTook(t))
        => /\ rsv["b"].result = "ok" /\ rsv["c"].result = "ok"
           /\ ReadHold(t) = FirstTook(t) + rsv["b"].quantity + rsv["c"].quantity

\* C23: concurrent bookings take effect one at a time, in the order of their
\* commits. A commit finds the ticket as the booking read it (no write of it
\* was committed in between), with room for the quantity, and adds the
\* quantity to qtySold and one record to the bookings; a booking that is
\* refused for inventory after a write conflict is refused by what is sold
\* by then. So qtySold is the initial value plus the quantities of the
\* bookings that succeeded, the records are theirs, and bookings of one
\* ticket that succeeded together never exceed what was left of it.
C23_BookingsAreSerial ==
    /\ [][\A c \in FinCalls :
            /\ (fin[c].pc = "commit" /\ fin'[c].result = "ok")
                 => LET t == fin[c].sel[1] IN
                    /\ tver[t] = fin[c].ver
                    /\ tickets[t].qtySold + fin[c].qty <= tickets[t].qtyTotal
                    /\ tickets'[t].qtySold = tickets[t].qtySold + fin[c].qty
                    /\ Cardinality(bookings') = Cardinality(bookings) + 1
            /\ (fin[c].pc = "retry" /\ fin'[c].result = "Insufficient")
                 => \E t \in DOMAIN tickets :
                       /\ <<t>> \in FindOneTicket(fin[c].eventId, fin[c].ticketId, fin[c].ticketType)
                       /\ tickets[t].qtySold + fin[c].qty > tickets[t].qtyTotal
                       /\ tickets[t].qtySold
                            = InitTickets[t].qtySold + SumQty(Booked(t), FinQty)]_vars
    /\ [](\A t \in DOMAIN tickets :
            /\ tickets[t].qtySold = InitTickets[t].qtySold + SumQty(Booked(t), FinQty)
            /\ SumQty(Booked(t), FinQty) <= InitTickets[t].qtyTotal - InitTickets[t].qtySold)
    /\ []({b.id : b \in bookings} = {c \in FinCalls : fin[c].result = "ok"})

\* One booking of t1 has committed, and the other, which read the ticket
\* before that commit and asks for more than is left now, has met the write
\* conflict and runs again.
C23_Witness ==
    \E c, d \in FinCalls :
        /\ fin[c].result = "ok" /\ fin[c].sel = <<"t1">>
        /\ fin[d].pc = "retry" /\ fin[d].sel = <<"t1">>
        /\ fin[d].qty <= InitTickets["t1"].qtyTotal - InitTickets["t1"].qtySold
        /\ tickets["t1"].qtySold + fin[d].qty > tickets["t1"].qtyTotal

\* C24: no step lowers qtySold of a ticket, and a step that raises it is the
\* commit of a booking of that ticket, which raises it by the quantity booked.
C24_SoldNeverDecreases ==
    [][\A t \in DOMAIN tickets :
          /\ t \in DOMAIN tickets'
          /\ tickets'[t].qtySold >= tickets[t].qtySold
          /\ tickets'[t].qtySold > tickets[t].qtySold
               => \E c \in FinCalls :
                     /\ fin[c].pc = "commit" /\ fin'[c].result = "ok" /\ fin[c].sel = <<t>>
                     /\ tickets'[t].qtySold = tickets[t].qtySold + fin[c].qty]_vars

\* A booking of t1 and an edit of its qtyTotal have committed, a reserve and
\* a release of t1 have run, and qtySold is what the booking made it.
C24_Witness ==
    /\ fin["f1"].result = "ok"
    /\ edt["g1"].result = "ok" /\ tickets["t1"].qtyTotal # InitTickets["t1"].qtyTotal
    /\ rsv["a"].result = "ok" /\ rel["r1"].result = "ok"
    /\ tickets["t1"].qtySold = InitTickets["t1"].qtySold + fin["f1"].qty

\* C25: in every state every line of every stored cart has a quantity of at
\* least 1 and at most the perOrderLimit written in the line.
C25_LineWithinLimit ==
    \A id \in DOMAIN carts : \A t \in DOMAIN carts[id].doc.items :
        LET item == carts[id].doc.items[t] IN
        /\ item.quantity >= 1
        /\ item.quantity <= item.perOrderLimit

\* A reserve has filled a line up to the limit, and a release of a part of
\* a line has left a line of one unit in another cart.
C25_Witness ==
    /\ \E id \in DOMAIN carts : \E t \in DOMAIN carts[id].doc.items :
          carts[id].doc.items[t].quantity = carts[id].doc.items[t].perOrderLimit
    /\ rel["r1"].result = "ok" /\ rel["r1"].ret # Null
    /\ \E id \in DOMAIN carts : \E t \in DOMAIN carts[id].doc.items :
          carts[id].doc.items[t].quantity = 1 /\ rel["r1"].ret.cartId = id

\* C26: in every state every stored cart has at least one line; a step that
\* stores a cart under a key that was absent is the EXEC of a reserve that
\* succeeds; and the last command of a release that leaves the cart without
\* a line deletes the cart key.
C26_NoEmptyCart ==
    /\ [](\A id \in DOMAIN carts : DOMAIN carts[id].doc.items # {})
    /\ [][/\ \A id \in DOMAIN carts' \ DOMAIN carts :
               \E c \in RsvCalls :
                  /\ rsv[c].pc = "exec" /\ rsv'[c].result = "ok"
                  /\ rsv'[c].ret.cartId = id
          /\ \A c \in RelCalls :
               (rel[c].pc = "cart" /\ rel'[c].pc = "done")
                  => IF rel'[c].ret = Null THEN rel[c].cartId \notin DOMAIN carts'
                     ELSE /\ rel[c].cartId \in DOMAIN carts'
                          /\ DOMAIN carts'[rel[c].cartId].doc.items # {}]_vars

\* C27: in every state every line of a stored cart is of a ticket of the
\* cart's event: the eventId written in the line is the cart's eventId, and
\* it is the eventId of the line's ticket.
C27_CartOfOneEvent ==
    \A id \in DOMAIN carts : \A t \in DOMAIN carts[id].doc.items :
        /\ carts[id].doc.items[t].eventId = carts[id].doc.eventId
        /\ tickets[t].eventId = carts[id].doc.eventId

\* A cart of each event is stored, and a reserve of a ticket of one event
\* into the cart of the other has been refused.
C27_Witness ==
    /\ \E id \in DOMAIN carts : carts[id].doc.eventId = "e1" /\ "t1" \in DOMAIN carts[id].doc.items
    /\ \E id \in DOMAIN carts : carts[id].doc.eventId = "e2" /\ "t2" \in DOMAIN carts[id].doc.items
    /\ \E d \in RsvCalls : rsv[d].result = "EventMismatch"

\* C28: no step of a getCart changes a counter, a cart, a time to live or a
\* watch. The call returns null when it finds no cart under the key, and
\* else the cart it read together with expiresInSeconds: the time the key
\* has to live, from 1 to HOLD_SECONDS, and HOLD_SECONDS when the key is gone
\* by the time the store is asked for it.
C28_GetCartReadsOnly ==
    [][\A c \in GetCalls :
          gct'[c] # gct[c]
            => /\ UNCHANGED <<hold, carts, watched, dirty, tickets, events, bookings>>
               /\ (gct[c].pc = "idle" /\ gct'[c].pc = "done")
                    => /\ gct'[c].ret = Null
                       /\ gct'[c].cartId = Null \/ gct'[c].cartId \notin DOMAIN carts
               /\ (gct[c].pc = "idle" /\ gct'[c].pc = "ttl")
                    => /\ gct'[c].cartId \in DOMAIN carts
                       /\ gct'[c].cart = carts[gct'[c].cartId].doc
               /\ (gct[c].pc = "ttl" /\ gct'[c].pc = "done")
                    => LET ret == gct'[c].ret IN
                       /\ serializeCart(ret) = gct[c].cart
                       /\ ret.expiresInSeconds >= 1 /\ ret.expiresInSeconds <= HOLD_SECONDS
                       /\ ret.expiresInSeconds =
                            IF gct[c].cartId \in DOMAIN carts THEN carts[gct[c].cartId].ttl
                            ELSE HOLD_SECONDS]_vars

\* A getCart has returned a cart whose key was gone when it asked for the
\* time to live, with expiresInSeconds the hold duration.
C28_Witness ==
    /\ gct["q1"].pc = "done" /\ gct["q1"].ret # Null
    /\ gct["q1"].cartId \notin DOMAIN carts
    /\ gct["q1"].ret.expiresInSeconds = HOLD_SECONDS

\* The active tickets of event e among the tickets S at the lowest price.
C29_Cheapest(e, S) ==
    LET act == {t \in S : tickets[t].eventId = e /\ tickets[t].status = "active"} IN
    {t \in act : \A o \in act : tickets[t].priceCents <= tickets[o].priceCents}

\* The tickets the rule of C29 selects: the ticket of the id when one is
\* given, else the cheapest active ticket of the name when one is given, else
\* the cheapest active ticket of the event.
C29_SelectedByRule(e, tid, ttype) ==
    IF tid # Null THEN C29_Cheapest(e, {t \in DOMAIN tickets : <<t>> = tid})
    ELSE IF ttype # Null THEN C29_Cheapest(e, {t \in DOMAIN tickets : <<tickets[t].name>> = ttype})
    ELSE C29_Cheapest(e, DOMAIN tickets)

\* C29: a booking that goes on to its writes has selected a ticket the rule
\* selects for its request, and when the rule selects a ticket for every
\* selector a request can send, no booking ends with the no-inventory error.
C29_SelectsByIdThenName ==
    /\ \A c \in FinCalls :
          fin[c].pc \notin {"idle", "done"}
             => fin[c].sel[1] \in C29_SelectedByRule(fin[c].eventId, fin[c].ticketId, fin[c].ticketType)
    /\ (\A tid \in TicketIds, ttype \in TicketTypes : C29_SelectedByRule("e1", tid, ttype) # {})
          => \A c \in FinCalls : fin[c].result # "NoInventory"

\* C30: at the step at which the EXEC of a reserve applies, the quantity is
\* at most qtyTotal - qtySold of the ticket as stored at that step, less the
\* counter of the ticket before the step.
C30_ReserveAgainstCurrentInventory ==
    [][\A c \in RsvCalls :
          (rsv[c].pc = "exec" /\ rsv'[c].result = "ok")
             => rsv[c].quantity
                  <= tickets[rsv[c].ticketId].qtyTotal - tickets[rsv[c].ticketId].qtySold
                       - ReadHold(rsv[c].ticketId)]_vars

\* The booking records of event e, and the tickets of event e.
BookingsOf(e) == {b \in bookings : b.event_id = e}
TicketsOf(e) == {t \in DOMAIN tickets : tickets[t].eventId = e}

\* C31: in every state the quantities of the booking records of an event sum
\* to the increase of qtySold over the tickets of the event; and a step that
\* changes the booking records is the commit of a booking, which adds one
\* record and leaves the others as they are.
C31_RecordsMatchSold ==
    /\ [](\A e \in DOMAIN events :
            SumQty(BookingsOf(e), [b \in BookingsOf(e) |-> b.quantity])
              = SumQty(TicketsOf(e),
                       [t \in TicketsOf(e) |-> tickets[t].qtySold - InitTickets[t].qtySold]))
    /\ [][bookings' # bookings
            => \E c \in FinCalls :
                  /\ fin[c].pc = "commit" /\ fin'[c].result = "ok"
                  /\ bookings \subseteq bookings'
                  /\ Cardinality(bookings' \ bookings) = 1
                  /\ \A b \in bookings' \ bookings :
                        b.id = c /\ b.quantity = fin[c].qty /\ b.event_id = fin[c].eventId]_vars

\* A booking has committed on ticket t4, the cheapest active ticket after an
\* edit took t1 off sale, while the other booking runs its callback again
\* after a write conflict.
C31_Witness ==
    /\ Cardinality(bookings) = 1
    /\ tickets["t4"].qtySold > InitTickets["t4"].qtySold
    /\ \E d \in FinCalls : fin[d].pc = "retry"

\* C32: in every state, for every ticket, qtyTotal - qtySold - hold counter
\* is at least zero: what is sold plus what is held never exceeds capacity.
C32_AvailabilityNeverNegative ==
    \A t \in DOMAIN tickets :
        tickets[t].qtyTotal - tickets[t].qtySold - ReadHold(t) >= 0

C34_CounterOutlivesCarts ==
    Quiescent =>
    \A id \in DOMAIN carts :
        \A t \in DOMAIN carts[id].doc.items :
            t \in DOMAIN hold /\ hold[t].v >= LineQty(id, t)

\* C35: a request of the cart routes for a cart of another user is answered
\* 404 and a body never carries another user's cart; a release changes the
\* store only for a DELETE that passed the owner check, on a cart of the
\* requesting user; and a reserve that names another user's cart ends with
\* the forbidden error and leaves the store as it was.
C35_RoutesKeepToOwnCart ==
    /\ [](\A w \in WebCalls :
            /\ web[w].cart # Null => web[w].cart.userId = web[w].userId
            /\ web[w].status = 404 => rel[RelOf[w]].pc = "idle")
    /\ [][\A w \in WebCalls :
            /\ (/\ web[w].pc = "getCart" /\ web'[w].pc # "getCart"
                /\ gct[GetOf[w]].ret # Null
                /\ gct[GetOf[w]].ret.userId # web[w].userId)
                 => web'[w].pc = "done" /\ web'[w].status = 404
            /\ (RelStep(RelOf[w]) /\ <<hold, carts, watched, dirty>>' # <<hold, carts, watched, dirty>>)
                 => /\ web[w].pc = "release" /\ web[w].route = "DELETE"
                    /\ rel[RelOf[w]].workingCart.userId = web[w].userId
                    /\ rel[RelOf[w]].workingCart.cartId = web[w].cartId]_vars
    /\ [][\A c \in RsvCalls :
            (/\ RsvStep(c)
             /\ rsv[c].pc = "getCart"
             /\ rsv[c].cartId \in DOMAIN carts
             /\ carts[rsv[c].cartId].doc.userId # rsv[c].userId)
               => /\ rsv'[c].pc = "done" /\ rsv'[c].result = "Forbidden"
                  /\ UNCHANGED <<durable, redis>>]_vars

\* A request of the cart routes for a stored cart of another user was
\* answered 404, and a reserve into another user's cart was refused.
C35_Witness ==
    /\ web["w1"].pc = "done" /\ web["w1"].status = 404
    /\ web["w1"].cartId \in DOMAIN carts
    /\ carts[web["w1"].cartId].doc.userId # web["w1"].userId
    /\ \E c \in RsvCalls : rsv[c].result = "Forbidden"

\* The fields of a stored cart that identify it.
CartIdentity(doc) == <<doc.cartId, doc.userId, doc.eventId, doc.currency>>

\* C36: a stored cart carries the id of its key, and no step changes the
\* cartId, userId, eventId or currency of a cart that stays stored; and a
\* reserve that was given a cart id under which it found no cart stores its
\* cart under an id that is not the given one and was not in use, and leaves
\* the given id as it was.
C36_CartIdentityIsFixed ==
    /\ [](\A id \in DOMAIN carts : carts[id].doc.cartId = id)
    /\ [][\A id \in DOMAIN carts \cap DOMAIN carts' :
             CartIdentity(carts'[id].doc) = CartIdentity(carts[id].doc)]_vars
    /\ [][\A c \in RsvCalls :
            (/\ rsv[c].pc = "exec" /\ rsv'[c].result = "ok"
             /\ rsv[c].cartId # Null /\ rsv[c].workingCart = Null)
               => LET id == rsv'[c].ret.cartId IN
                  /\ id # rsv[c].cartId
                  /\ id \notin DOMAIN carts /\ id \in DOMAIN carts'
                  /\ carts'[id].doc.userId = rsv[c].userId
                  /\ rsv[c].cartId \notin DOMAIN carts'
                        => rsv[c].cartId \notin DOMAIN carts
                  /\ rsv[c].cartId \in DOMAIN carts'
                        => /\ rsv[c].cartId \in DOMAIN carts
                           /\ carts'[rsv[c].cartId] = carts[rsv[c].cartId]]_vars

\* A reserve that named a cart that was gone at its lookup is about to store
\* its cart under the id it generated, and a release has rewritten the lines
\* of a cart and returned it.
C36_Witness ==
    /\ \E c \in RsvCalls :
          /\ rsv[c].pc = "exec" /\ ExecApplies(rsv[c].proc)
          /\ rsv[c].cartId # Null /\ rsv[c].workingCart = Null
          /\ rsv[c].cartId \notin DOMAIN carts
          /\ rsv[c].effectiveCartId # rsv[c].cartId
    /\ rel["r1"].pc = "done" /\ rel["r1"].result = "ok" /\ rel["r1"].ret # Null

\* The three conditions of a ticket document.
TicketOk(tk) ==
    /\ tk.qtyTotal >= tk.qtySold
    /\ tk.perOrderLimit >= 1
    /\ tk.perOrderLimit <= tk.qtyTotal \/ tk.qtyTotal = 0

\* What an edit body asks of ticket tk: tk with the body's qtyTotal and
\* perOrderLimit written into it as sent.
AsRequested(tk, body) ==
    [tk EXCEPT !.qtyTotal = IF body.qtyTotal # Null THEN body.qtyTotal[1] ELSE @,
               !.perOrderLimit = IF body.perOrderLimit # Null THEN body.perOrderLimit[1] ELSE @]

\* C37: every stored ticket has qtyTotal >= qtySold, perOrderLimit >= 1 and
\* perOrderLimit <= qtyTotal or qtyTotal = 0; a create or an edit that does
\* not end with success leaves the tickets as they were; a create succeeds
\* only with a body that meets the conditions, and an edit whose qtyTotal is
\* below qtySold or whose perOrderLimit breaks the conditions does not
\* succeed.
C37_TicketQuantitiesConsistent ==
    /\ [](\A t \in DOMAIN tickets : TicketOk(tickets[t]))
    /\ [][\A c \in EdtCalls :
            /\ (edt[c].pc # "done" /\ edt'[c].pc = "done" /\ edt'[c].result # "ok")
                 => tickets' = tickets
            /\ (edt[c].pc = "commit" /\ edt'[c].result = "ok")
                 => LET asked == AsRequested(tickets[edt[c].ticketId], edt[c].body) IN
                    /\ asked.qtyTotal >= asked.qtySold
                    /\ edt[c].body.perOrderLimit # Null => TicketOk(asked)]_vars
    /\ [][\A c \in CrtCalls :
            (crt[c].pc = "idle" /\ crt'[c].pc = "done")
               => IF crt'[c].result = "ok"
                  THEN /\ crt'[c].ticketId \notin DOMAIN tickets
                       /\ crt'[c].body.qtyTotal >= 0
                       /\ tickets'[crt'[c].ticketId].qtyTotal = crt'[c].body.qtyTotal
                       /\ crt'[c].body.perOrderLimit # Null
                             => tickets'[crt'[c].ticketId].perOrderLimit = crt'[c].body.perOrderLimit[1]
                       /\ \A t \in DOMAIN tickets : tickets'[t] = tickets[t]
                  ELSE tickets' = tickets]_vars

\* A ticket was created with qtyTotal 0 and a perOrderLimit above 1, an edit
\* has raised its qtyTotal and lowered the limit with it, another edit was
\* rejected, and a booking has sold units of a ticket whose qtyTotal an edit
\* has changed.
C37_Witness ==
    /\ crt["n1"].result = "ok" /\ crt["n1"].body.qtyTotal = 0
    /\ crt["n1"].body.perOrderLimit # Null
    /\ tickets["t5"].qtyTotal > 0
    /\ tickets["t5"].perOrderLimit < crt["n1"].body.perOrderLimit[1]
    /\ tickets["t1"].qtySold > InitTickets["t1"].qtySold
    /\ tickets["t1"].qtyTotal # InitTickets["t1"].qtyTotal
    /\ edt["g1"].pc = "done" /\ edt["g1"].result = "BadRequest"

\* C38: a connection watches a key only while a reserve attempt of its
\* process is between its WATCH and its end: when no call of process p is
\* past its WATCH and before its EXEC or UNWATCH has answered, the
\* connection of p watches nothing.
C38_NoWatchLeftOver ==
    \A p \in Procs :
        (\A c \in RsvCalls : rsv[c].proc = p => rsv[c].pc \notin {"get", "exec", "unwatch"})
           => watched[p] = {}

====
